---- MODULE Spec2Model ----
(***************************************************************************)
(* Model of the deep-research session controller                           *)
(* (packages/deepresearch-agent/src/core/session.ts) and of the helpers    *)
(* it calls.  A JavaScript string is a sequence of one-character strings,  *)
(* so that trimming, lower-casing and the regular-expression replacements  *)
(* are computed character by character.  One action is one synchronous     *)
(* segment of the code: the code between two awaits runs to completion.    *)
(***************************************************************************)
EXTENDS Integers, Sequences, FiniteSets, TLC

(* ---------------------------------------------------------------------- *)
(* Bounds of the model                                                      *)
(* ---------------------------------------------------------------------- *)

\* run() calls made on the controller instance
MaxCalls == 2
\* largest value of the maxTurns constructor option that is tried (from 0)
MaxTurnsOption == 2
\* turn-boundary events the engine may still deliver after the cap was reached
MaxExtraTurns == 1

\* "no value" of a string-valued expression (JavaScript undefined): a sequence
\* that is no string, because its one element is not a character
Undefined == <<"undefined">>

(* ---------------------------------------------------------------------- *)
(* Strings                                                                  *)
(* ---------------------------------------------------------------------- *)

Lower == <<"a","b","c","d","e","f","g","h","i","j","k","l","m",
           "n","o","p","q","r","s","t","u","v","w","x","y","z">>
Upper == <<"A","B","C","D","E","F","G","H","I","J","K","L","M",
           "N","O","P","Q","R","S","T","U","V","W","X","Y","Z">>
Digits == {"0","1","2","3","4","5","6","7","8","9"}
Whitespace == {" ", "\t", "\n", "\r"}

Range(s) == {s[i] : i \in DOMAIN s}

\* String.prototype.toLowerCase, one character
LowerChar(ch) ==
    IF \E i \in DOMAIN Upper : Upper[i] = ch
    THEN Lower[CHOOSE i \in DOMAIN Upper : Upper[i] = ch]
    ELSE ch

toLowerCase(s) == [i \in DOMAIN s |-> LowerChar(s[i])]

\* String.prototype.trimStart
TrimStart(value) ==
    CHOOSE trimmed \in
        {IF \A i \in DOMAIN str : str[i] \in Whitespace THEN <<>>
         ELSE SubSeq(str,
                     CHOOSE i \in DOMAIN str :
                        /\ str[i] \notin Whitespace
                        /\ \A j \in 1..(i - 1) : str[j] \in Whitespace,
                     Len(str)) :
            str \in {value}} : TRUE

\* String.prototype.trimEnd
TrimEnd(value) ==
    CHOOSE trimmed \in
        {IF \A i \in DOMAIN str : str[i] \in Whitespace THEN <<>>
         ELSE SubSeq(str, 1,
                     CHOOSE i \in DOMAIN str :
                        /\ str[i] \notin Whitespace
                        /\ \A j \in (i + 1)..Len(str) : str[j] \in Whitespace) :
            str \in {value}} : TRUE

\* String.prototype.trim
Trim(s) == TrimEnd(TrimStart(s))

StartsWith(s, p) == Len(s) >= Len(p) /\ SubSeq(s, 1, Len(p)) = p
EndsWith(s, p) == Len(s) >= Len(p) /\ SubSeq(s, Len(s) - Len(p) + 1, Len(s)) = p

\* the index of the first character of s that is in stop, Len(s) + 1 if none
FirstIn(s, stop) ==
    IF \A i \in DOMAIN s : s[i] \notin stop THEN Len(s) + 1
    ELSE CHOOSE i \in DOMAIN s : s[i] \in stop /\ \A j \in 1..(i - 1) : s[j] \notin stop

\* the longest prefix of s that holds none of the characters of stop.  (The
\* argument is bound to its value once, here and below, by letting a variable
\* range over the set that holds just that value.)
TakeUntil(s, stop) ==
    CHOOSE prefix \in {SubSeq(t, 1, FirstIn(t, stop) - 1) : t \in {s}} : TRUE

\* s.split(sep) for a one-character separator
RECURSIVE SplitFrom(_, _, _)
SplitFrom(s, sep, from) ==
    LET next == CHOOSE n \in {from + FirstIn(SubSeq(s, from, Len(s)), {sep}) - 1} : TRUE
    IN  IF next > Len(s) THEN <<SubSeq(s, from, Len(s))>>
        ELSE <<SubSeq(s, from, next - 1)>> \o SplitFrom(s, sep, next + 1)

Split(s, sep) == CHOOSE parts \in {SplitFrom(t, sep, 1) : t \in {s}} : TRUE

\* parts.join(sep)
RECURSIVE Join(_, _)
Join(parts, sep) ==
    IF parts = <<>> THEN <<>>
    ELSE IF Len(parts) = 1 THEN parts[1]
    ELSE parts[1] \o sep \o Join(Tail(parts), sep)

SelectNonEmpty(parts) == SelectSeq(parts, LAMBDA p : p # <<>>)

(* ---------------------------------------------------------------------- *)
(* URLs (new URL(...), session.ts line 357)                                 *)
(* ---------------------------------------------------------------------- *)

Http == <<"h","t","t","p",":","/","/">>
Https == <<"h","t","t","p","s",":","/","/">>

\* the scheme prefix of an http(s) URL string, <<>> when there is none;
\* the scheme is matched case-insensitively
SchemeOf(s) ==
    IF StartsWith(toLowerCase(s), Https) THEN Https
    ELSE IF StartsWith(toLowerCase(s), Http) THEN Http
    ELSE <<>>

\* new URL(s) for http(s) inputs: ok is FALSE when the constructor throws.  The
\* parser lower-cases scheme and host and makes an empty path "/".
ParseUrl(s) ==
    LET scheme == SchemeOf(s)
        rest == SubSeq(s, Len(scheme) + 1, Len(s))
        host == TakeUntil(rest, {"/", "?", "#"})
        after == SubSeq(rest, Len(host) + 1, Len(rest))
        path == TakeUntil(after, {"?", "#"})
        tail == SubSeq(after, Len(path) + 1, Len(after))
        pathname == IF path = <<>> THEN <<"/">> ELSE path
    IN  IF scheme = <<>> \/ host = <<>> \/ Range(s) \cap Whitespace # {}
        THEN [ok |-> FALSE]
        ELSE [ok |-> TRUE,
              hostname |-> toLowerCase(host),
              pathname |-> pathname,
              href |-> scheme \o toLowerCase(host) \o pathname \o tail]

\* URL.prototype.toString
UrlToString(u) == u.href

(* ---------------------------------------------------------------------- *)
(* Slugs (session.ts lines 185-218)                                         *)
(* ---------------------------------------------------------------------- *)

ArxivOrg == <<"a","r","x","i","v",".","o","r","g">>
AbsPrefix == <<"/","a","b","s","/">>
PdfPrefix == <<"/","p","d","f","/">>
DotPdf == <<".","p","d","f">>
ArxivDash == <<"a","r","x","i","v","-">>
ArxivPaper == <<"a","r","x","i","v","-","p","a","p","e","r">>
Paper == <<"p","a","p","e","r">>
SlugCap == 80

\* pathname.match(/^\/abs\/([^/?#]+)/): the captured group, Undefined if no match
AbsMatch(pathname) ==
    LET id == IF StartsWith(pathname, AbsPrefix)
              THEN TakeUntil(SubSeq(pathname, 6, Len(pathname)), {"/", "?", "#"})
              ELSE <<>>
    IN  IF id = <<>> THEN Undefined ELSE id

\* pathname.match(/^\/pdf\/([^/?#]+?)(?:\.pdf)?$/): the lazy group gives up
\* a trailing ".pdf" unless that would leave it empty
PdfMatch(pathname) ==
    LET rest == IF StartsWith(pathname, PdfPrefix)
                THEN SubSeq(pathname, 6, Len(pathname))
                ELSE <<>>
    IN  IF rest = <<>> \/ Range(rest) \cap {"/", "?", "#"} # {} THEN Undefined
        ELSE IF EndsWith(rest, DotPdf) /\ Len(rest) > Len(DotPdf)
             THEN SubSeq(rest, 1, Len(rest) - Len(DotPdf))
             ELSE rest

parseArxivId(seedUrl) ==
    IF ~EndsWith(seedUrl.hostname, ArxivOrg) THEN Undefined
    ELSE IF AbsMatch(seedUrl.pathname) # Undefined THEN AbsMatch(seedUrl.pathname)
    ELSE PdfMatch(seedUrl.pathname)

IsSlugChar(ch) == (\E i \in DOMAIN Lower : Lower[i] = ch) \/ ch \in Digits

\* the positions of a string
Positions(str) == [i \in 1..Len(str) |-> i]

\* .replace(/[^a-z0-9]+/g, "-"): every maximal run of other characters
\* becomes one hyphen, written where the run ends
ReplaceRuns(value) ==
    CHOOSE replaced \in
        {[k \in DOMAIN kept |-> IF IsSlugChar(str[kept[k]]) THEN str[kept[k]] ELSE "-"] :
            kept \in {SelectSeq(Positions(str),
                                LAMBDA i : \/ IsSlugChar(str[i])
                                           \/ i = Len(str)
                                           \/ IsSlugChar(str[i + 1])) :
                         str \in {value}},
            str \in {value}} : TRUE

\* .replace(/^-+|-+$/g, "")
StripHyphens(value) ==
    CHOOSE stripped \in
        {IF \A i \in DOMAIN str : str[i] = "-" THEN <<>>
         ELSE SubSeq(str,
                     CHOOSE i \in DOMAIN str :
                        str[i] # "-" /\ \A j \in 1..(i - 1) : str[j] = "-",
                     CHOOSE i \in DOMAIN str :
                        str[i] # "-" /\ \A j \in (i + 1)..Len(str) : str[j] = "-") :
            str \in {value}} : TRUE

\* .replace(/-+/g, "-"): of a run of hyphens the last one stays
CollapseHyphens(value) ==
    CHOOSE collapsed \in
        {[k \in DOMAIN kept |-> str[kept[k]]] :
            kept \in {SelectSeq(Positions(str),
                                LAMBDA i : ~(/\ str[i] = "-"
                                             /\ i < Len(str)
                                             /\ str[i + 1] = "-")) :
                         str \in {value}},
            str \in {value}} : TRUE

sanitizeSlug(value) == CollapseHyphens(StripHyphens(ReplaceRuns(toLowerCase(value))))

createPaperSlug(seedUrl) ==
    LET arxivId == parseArxivId(seedUrl)
        pathFragment == Join(SelectNonEmpty(Split(seedUrl.pathname, "/")), <<"-">>)
        rawSlug == seedUrl.hostname \o <<"-">> \o pathFragment
        slug == sanitizeSlug(rawSlug)
    IN  IF arxivId # Undefined
        THEN (IF sanitizeSlug(ArxivDash \o arxivId) # <<>>
              THEN sanitizeSlug(ArxivDash \o arxivId)
              ELSE ArxivPaper)
        ELSE IF Len(slug) > 0
             THEN SubSeq(slug, 1, IF Len(slug) < SlugCap THEN Len(slug) ELSE SlugCap)
             ELSE Paper

(* ---------------------------------------------------------------------- *)
(* Paths (node:path join/resolve, tools/path-utils.ts)                      *)
(* ---------------------------------------------------------------------- *)

Sep == "/"

isAbsolute(p) == p # <<>> /\ Head(p) = Sep

\* the segments of a path with "", "." dropped and ".." applied
RECURSIVE NormalizeSegments(_, _)
NormalizeSegments(segs, acc) ==
    IF segs = <<>> THEN acc
    ELSE IF Head(segs) = <<>> \/ Head(segs) = <<".">>
         THEN NormalizeSegments(Tail(segs), acc)
    ELSE IF Head(segs) = <<".", ".">>
         THEN NormalizeSegments(Tail(segs),
                  IF acc = <<>> THEN acc ELSE SubSeq(acc, 1, Len(acc) - 1))
    ELSE NormalizeSegments(Tail(segs), Append(acc, Head(segs)))

\* path.resolve(base, p) for an absolute base
PathResolve(base, p) ==
    LET full == IF isAbsolute(p) THEN p ELSE base \o <<Sep>> \o p
    IN  <<Sep>> \o Join(NormalizeSegments(Split(full, Sep), <<>>), <<Sep>>)

\* path.join(a, b): the two joined by the separator; every caller resolves the
\* result, which is what removes "." and ".." segments
PathJoin(a, b) == a \o <<Sep>> \o b

\* a resolvePathWithinRoot whose test is startsWith(normalizedRoot), without
\* the separator
resolvePathByPrefix(inputPath, rootDir) ==
    LET normalizedRoot == PathResolve(<<Sep>>, rootDir)
        absolutePath == IF isAbsolute(inputPath)
                        THEN PathResolve(<<Sep>>, inputPath)
                        ELSE PathResolve(normalizedRoot, inputPath)
    IN  IF StartsWith(absolutePath, normalizedRoot)
        THEN absolutePath
        ELSE Undefined

\* resolvePathWithinRoot: Undefined when it throws
resolvePathWithinRoot(inputPath, rootDir) ==
    LET normalizedRoot == PathResolve(<<Sep>>, rootDir)
        absolutePath == IF isAbsolute(inputPath)
                        THEN PathResolve(<<Sep>>, inputPath)
                        ELSE PathResolve(normalizedRoot, inputPath)
    IN  IF absolutePath = normalizedRoot
           \/ StartsWith(absolutePath, normalizedRoot \o <<Sep>>)
        THEN absolutePath
        ELSE Undefined

(* ---------------------------------------------------------------------- *)
(* Report Validator (session.ts lines 120-183, system-prompt.ts lines 1-15) *)
(* ---------------------------------------------------------------------- *)

HPaper == <<"#"," ","P","a","p","e","r">>
HProblems == <<"#","#"," ","1","."," ","K","e","y"," ","P","r","o","b","l","e","m","s"," ","a","n","d"," ","C","h","a","l","l","e","n","g","e","s">>
HSolves == <<"#","#"," ","2","."," ","H","o","w"," ","T","h","i","s"," ","P","a","p","e","r"," ","S","o","l","v","e","s"," ","T","h","e","m">>
HRelated == <<"#","#"," ","3","."," ","R","e","l","a","t","e","d"," ","W","o","r","k"," ","a","n","d"," ","K","e","y"," ","D","i","f","f","e","r","e","n","c","e","s">>
HFuture == <<"#","#"," ","4","."," ","F","u","t","u","r","e"," ","D","i","r","e","c","t","i","o","n","s">>
HReferences == <<"#","#"," ","R","e","f","e","r","e","n","c","e","s">>

REQUIRED_REPORT_HEADINGS == <<HPaper, HProblems, HSolves, HRelated, HFuture, HReferences>>
REQUIRED_QUESTION_HEADINGS == <<HProblems, HSolves, HRelated, HFuture>>
MinSectionChars == 120

\* what ^ and $ of a multiline regular expression take for a line break
LineTerminators == {"\n", "\r"}

Contains(s, pat) ==
    \E t \in {s} :
        \E i \in 1..(Len(t) - Len(pat) + 1) : SubSeq(t, i, i + Len(pat) - 1) = pat

\* new RegExp(`^${escapeRegExp(heading)}\\s*$`, "m").test(markdown): the heading
\* at the start of a line, then white space up to a line break or the end
HeadingAt(markdown, heading, i) ==
    /\ (i = 1 \/ markdown[i - 1] \in LineTerminators)
    /\ i + Len(heading) - 1 <= Len(markdown)
    /\ SubSeq(markdown, i, i + Len(heading) - 1) = heading
    /\ \E j \in (i + Len(heading))..(Len(markdown) + 1) :
          /\ \A k \in (i + Len(heading))..(j - 1) : markdown[k] \in Whitespace
          /\ (j = Len(markdown) + 1 \/ markdown[j] \in LineTerminators)

\* a heading looked for anywhere in the text, not on a line of its own
hasHeadingAnywhere(markdown, heading) == Contains(markdown, heading)

hasHeading(markdown, heading) ==
    \E text \in {markdown} : \E i \in 1..Len(text) : HeadingAt(text, heading, i)

\* markdown.replaceAll("\r\n", "\n"): the "\r" before a "\n" is dropped
ReplaceCRLF(s) ==
    CHOOSE r \in {SelectSeq([i \in DOMAIN t |->
                                IF t[i] = "\r" /\ i < Len(t) /\ t[i + 1] = "\n"
                                THEN <<>> ELSE <<t[i]>>],
                            LAMBDA x : x # <<>>) : t \in {s}} : TRUE

\* the characters of a sequence of one-character sequences
Chars(units) == [i \in DOMAIN units |-> units[i][1]]

RECURSIVE LeadingHashes(_)
LeadingHashes(s) ==
    IF s # <<>> /\ Head(s) = "#" THEN 1 + LeadingHashes(Tail(s)) ELSE 0

\* line.match(/^(#+)\s+/): the length of the group, 0 when there is no match
HashPrefix(line) ==
    LET n == LeadingHashes(line)
    IN  IF n > 0 /\ n < Len(line) /\ line[n + 1] \in Whitespace THEN n ELSE 0

\* a section that ends at the next heading line of any depth
SectionToNextHeading(lines, heading) ==
    LET found == {i \in DOMAIN lines : Trim(lines[i]) = Trim(heading)}
        sectionIndex == IF found = {} THEN 0
                        ELSE CHOOSE i \in found : \A j \in found : i <= j
        stops == {i \in DOMAIN lines :
                    i > sectionIndex /\ HashPrefix(Trim(lines[i])) > 0}
        endIndex == IF stops = {} THEN Len(lines) + 1
                    ELSE CHOOSE i \in stops : \A j \in stops : i <= j
    IN  IF sectionIndex = 0 THEN <<>>
        ELSE Trim(Join(SubSeq(lines, sectionIndex + 1, endIndex - 1), <<"\n">>))

\* lines 126-151 on the lines of the text
SectionOfLines(lines, heading) ==
    LET found == {i \in DOMAIN lines : Trim(lines[i]) = Trim(heading)}
        sectionIndex == IF found = {} THEN 0
                        ELSE CHOOSE i \in found : \A j \in found : i <= j
        headingLevel == IF HashPrefix(heading) > 0 THEN HashPrefix(heading) ELSE 1
        stops == {i \in DOMAIN lines :
                    /\ i > sectionIndex
                    /\ HashPrefix(Trim(lines[i])) > 0
                    /\ HashPrefix(Trim(lines[i])) <= headingLevel}
        endIndex == IF stops = {} THEN Len(lines) + 1
                    ELSE CHOOSE i \in stops : \A j \in stops : i <= j
    IN  IF sectionIndex = 0 THEN <<>>
        ELSE Trim(Join(SubSeq(lines, sectionIndex + 1, endIndex - 1), <<"\n">>))

getSectionBody(markdown, heading) ==
    CHOOSE body \in {SectionOfLines(lines, heading) :
                        lines \in {Split(Chars(ReplaceCRLF(markdown)), "\n")}} : TRUE

ComparisonKeywords ==
    {<<"c","o","m","p","a","r","e">>,
     <<"c","o","m","p","a","r","e","d">>,
     <<"d","i","f","f","e","r","e","n","c","e">>,
     <<"d","i","f","f","e","r">>,
     <<"s","i","m","i","l","a","r">>,
     <<"w","h","e","r","e","a","s">>,
     <<"u","n","l","i","k","e">>,
     <<"i","n"," ","c","o","n","t","r","a","s","t">>}

\* /(compare|...|in contrast)/i.test(text)
hasComparisonKeyword(text) ==
    \E lowered \in {toLowerCase(text)} :
        \E kw \in ComparisonKeywords : Contains(lowered, kw)

\* /\[\d+\]/.test(text)
HasBracketCitation(text) ==
    \E t \in {text} :
        \E i \in DOMAIN t :
            /\ t[i] = "["
            /\ \E j \in (i + 2)..Len(t) :
                  /\ t[j] = "]"
                  /\ \A k \in (i + 1)..(j - 1) : t[k] \in Digits

\* /https?:\/\/\S+/i.test(text)
HasUrl(text) ==
    \E t \in {text} :
        \E scheme \in {Http, Https} : \E i \in DOMAIN t :
            /\ i + Len(scheme) <= Len(t)
            /\ toLowerCase(SubSeq(t, i, i + Len(scheme) - 1)) = scheme
            /\ t[i + Len(scheme)] \notin Whitespace

\* lines 155-182 once the two section bodies are at hand
ValidationOf(markdown, relatedWorkText, referencesText) ==
    LET missingHeadings ==
            SelectSeq(REQUIRED_REPORT_HEADINGS, LAMBDA h : ~hasHeading(markdown, h))
        answeredRequiredQuestions ==
            \A i \in DOMAIN REQUIRED_QUESTION_HEADINGS :
                Len(getSectionBody(markdown, REQUIRED_QUESTION_HEADINGS[i])) >= MinSectionChars
        hasComparisonCitation ==
            HasBracketCitation(relatedWorkText) \/ HasUrl(relatedWorkText)
        hasRelatedWorkComparison ==
            hasComparisonKeyword(relatedWorkText) /\ hasComparisonCitation
        hasReferenceUrls == HasUrl(referencesText)
        hasAllRequiredHeadings == Len(missingHeadings) = 0
    IN  [hasAllRequiredHeadings |-> hasAllRequiredHeadings,
         missingHeadings |-> missingHeadings,
         answeredRequiredQuestions |-> answeredRequiredQuestions,
         hasRelatedWorkComparison |-> hasRelatedWorkComparison,
         hasReferenceUrls |-> hasReferenceUrls,
         isComplete |-> hasAllRequiredHeadings /\ answeredRequiredQuestions
                        /\ hasRelatedWorkComparison /\ hasReferenceUrls]

validateReport(markdown) ==
    CHOOSE v \in {ValidationOf(text, getSectionBody(text, HRelated),
                               getSectionBody(text, HReferences)) :
                     text \in {markdown}} : TRUE

(* ---------------------------------------------------------------------- *)
(* JavaScript values of unknown type (tool results, optional fields)        *)
(* ---------------------------------------------------------------------- *)

JStr(str) == [t |-> "string", s |-> str]
JNum(num) == [t |-> "number", n |-> num]
JObj(fields) == [t |-> "object", o |-> fields]
JArr(items) == [t |-> "array", a |-> items]
JUndefined == [t |-> "undefined"]
JNull == [t |-> "null"]

\* typeof value === "object" && value !== null
isRecord(value) == value.t \in {"object", "array"}
\* typeof value === "string"
isString(value) == value.t = "string"
\* value.key
Get(value, key) ==
    IF value.t = "object" /\ key \in DOMAIN value.o THEN value.o[key] ELSE JUndefined
\* the left operand of a || b is taken unless it is falsy
Truthy(value) ==
    CASE value.t = "undefined" -> FALSE
      [] value.t = "null" -> FALSE
      [] value.t = "string" -> value.s # <<>>
      [] value.t = "number" -> value.n # 0
      [] OTHER -> TRUE
\* an || that prefers its right operand
OrLatest(a, b) == IF Truthy(b) THEN b ELSE a
Or(a, b) == IF Truthy(a) THEN a ELSE b

isWebSearchToolDetails(value) ==
    /\ isRecord(value)
    /\ isString(Get(value, "query"))
    /\ Get(value, "results").t = "array"
    /\ \A i \in DOMAIN Get(value, "results").a :
          LET entry == Get(value, "results").a[i]
          IN  /\ isRecord(entry)
              /\ isString(Get(entry, "title"))
              /\ isString(Get(entry, "url"))
              /\ isString(Get(entry, "snippet"))
              /\ isString(Get(entry, "source"))

SourceTypes == {<<"a","r","x","i","v">>, <<"p","d","f">>, <<"h","t","m","l">>,
                <<"o","t","h","e","r">>}

isExtractSourceToolDetails(value) ==
    /\ isRecord(value)
    /\ isString(Get(value, "title"))
    /\ isString(Get(value, "canonicalUrl"))
    /\ isString(Get(value, "sourceType"))
    /\ Get(value, "sourceType").s \in SourceTypes

(* ---------------------------------------------------------------------- *)
(* The source table (session.ts lines 276-325)                              *)
(* ---------------------------------------------------------------------- *)

\* a Map<string, SourceReference>: a function from the URLs it holds
EmptySources == [u \in {} |-> JUndefined]

\* an addSource that stamps a merged entry with the time of the merge
addSourceRestamp(sources, source, at) ==
    IF source.url \notin DOMAIN sources
    THEN (source.url :> [url |-> source.url, title |-> source.title,
                         snippet |-> source.snippet, source |-> source.source,
                         addedAt |-> at]) @@ sources
    ELSE LET existing == sources[source.url]
         IN  [sources EXCEPT ![source.url] =
                 [url |-> existing.url,
                  title |-> Or(existing.title, source.title),
                  snippet |-> Or(existing.snippet, source.snippet),
                  source |-> Or(existing.source, source.source),
                  addedAt |-> at]]

\* an addSource that replaces the entry of a URL by the latest observation
addSourceReplace(sources, source, at) ==
    [u \in DOMAIN sources \cup {source.url} |->
        IF u = source.url
        THEN [url |-> source.url, title |-> source.title,
              snippet |-> source.snippet, source |-> source.source,
              addedAt |-> at]
        ELSE sources[u]]

\* addSource on a run's source table; at is new Date().toISOString()
addSource(sources, source, at) ==
    IF source.url \notin DOMAIN sources
    THEN (source.url :> [url |-> source.url, title |-> source.title,
                         snippet |-> source.snippet, source |-> source.source,
                         addedAt |-> at]) @@ sources
    ELSE LET existing == sources[source.url]
         IN  [sources EXCEPT ![source.url] =
                 [url |-> existing.url,
                  title |-> Or(existing.title, source.title),
                  snippet |-> Or(existing.snippet, source.snippet),
                  source |-> Or(existing.source, source.source),
                  addedAt |-> existing.addedAt]]

RECURSIVE addSearchResults(_, _, _)
addSearchResults(sources, results, at) ==
    IF results = <<>> THEN sources
    ELSE addSearchResults(
             addSource(sources,
                       [url |-> Get(Head(results), "url").s,
                        title |-> Get(Head(results), "title"),
                        snippet |-> Get(Head(results), "snippet"),
                        source |-> Get(Head(results), "source")],
                       at),
             Tail(results), at)

\* an ingestToolSources that looks at the shape of the details only, not at
\* the name of the tool
ingestAnyToolSources(sources, toolName, result, at) ==
    LET details == Get(result, "details")
    IN  IF ~isRecord(result) THEN sources
        ELSE IF isWebSearchToolDetails(details)
        THEN addSearchResults(sources, Get(details, "results").a, at)
        ELSE IF isExtractSourceToolDetails(details)
        THEN addSource(sources,
                       [url |-> Get(details, "canonicalUrl").s,
                        title |-> Get(details, "title"),
                        snippet |-> Get(details, "abstract"),
                        source |-> Get(details, "sourceType")],
                       at)
        ELSE sources

\* ingestToolSources: the source table after a tool_execution_end event
ingestToolSources(sources, toolName, result, at) ==
    LET details == Get(result, "details")
    IN  IF ~isRecord(result) THEN sources
        ELSE IF toolName = "web_search" /\ isWebSearchToolDetails(details)
        THEN addSearchResults(sources, Get(details, "results").a, at)
        ELSE IF toolName = "extract_source" /\ isExtractSourceToolDetails(details)
        THEN addSource(sources,
                       [url |-> Get(details, "canonicalUrl").s,
                        title |-> Get(details, "title"),
                        snippet |-> Get(details, "abstract"),
                        source |-> Get(details, "sourceType")],
                       at)
        ELSE sources

(* ---------------------------------------------------------------------- *)
(* Sorting the sidecar (session.ts line 424)                                *)
(* ---------------------------------------------------------------------- *)

\* the collation order of the characters that occur in the model's URLs
Collation == <<"-", ":", ".", "\"", "/">> \o
             <<"0","1","2","3","4","5","6","7","8","9">> \o Lower

CharRank(ch) == CHOOSE i \in DOMAIN Collation : Collation[i] = ch

\* left.url.localeCompare(right.url) < 0
RECURSIVE LocaleLess(_, _)
LocaleLess(a, b) ==
    IF b = <<>> THEN FALSE
    ELSE IF a = <<>> THEN TRUE
    ELSE IF Head(a) = Head(b) THEN LocaleLess(Tail(a), Tail(b))
    ELSE CharRank(Head(a)) < CharRank(Head(b))

\* the values by descending url
RECURSIVE SourcesDescending(_)
SourcesDescending(sources) ==
    IF DOMAIN sources = {} THEN <<>>
    ELSE LET last == CHOOSE u \in DOMAIN sources :
                         \A v \in DOMAIN sources \ {u} : LocaleLess(v, u)
         IN  <<sources[last]>> \o
             SourcesDescending([u \in DOMAIN sources \ {last} |-> sources[u]])

\* [...sources.values()].sort(by url)
RECURSIVE SortedSources(_)
SortedSources(sources) ==
    IF DOMAIN sources = {} THEN <<>>
    ELSE LET first == CHOOSE u \in DOMAIN sources :
                          \A v \in DOMAIN sources \ {u} : LocaleLess(u, v)
         IN  <<sources[first]>> \o
             SortedSources([u \in DOMAIN sources \ {first} |-> sources[u]])

(* ---------------------------------------------------------------------- *)
(* The text of the sidecar (JSON.stringify(value, null, 2), line 425)       *)
(* ---------------------------------------------------------------------- *)

\* the escape of one character inside a JSON string
EscapeChar(ch) ==
    IF ch = "\"" THEN <<"\\", "\"">>
    ELSE IF ch = "\\" THEN <<"\\", "\\">>
    ELSE IF ch = "\n" THEN <<"\\", "n">>
    ELSE <<ch>>

RECURSIVE JsonEscape(_)
JsonEscape(str) ==
    IF str = <<>> THEN <<>> ELSE EscapeChar(Head(str)) \o JsonEscape(Tail(str))

\* a string as JSON text: quoted, with its quotes, backslashes and line
\* feeds escaped
JsonString(str) == <<"\"">> \o JsonEscape(str) \o <<"\"">>

\* Date.prototype.toISOString for the times of the model
DigitChars == <<"0","1","2","3","4","5","6","7","8","9">>
IsoString(at) == <<"T", DigitChars[at + 1]>>

Indent2 == <<" ", " ">>
Indent4 == <<" ", " ", " ", " ">>
Indent6 == <<" ", " ", " ", " ", " ", " ">>

\* the line of a property of a source entry; a property whose value is
\* undefined is left out
PropertyLine(key, value) ==
    IF value.t = "undefined" THEN <<>>
    ELSE <<Indent6 \o JsonString(key) \o <<":", " ">> \o JsonString(value.s)>>

\* every line but the last gets a comma
WithCommas(lines) ==
    [i \in DOMAIN lines |-> IF i < Len(lines) THEN lines[i] \o <<",">> ELSE lines[i]]

\* the lines of one entry of the sources array
EntryBlock(entry) ==
    <<Indent4 \o <<"{">>>>
        \o WithCommas(PropertyLine(<<"u","r","l">>, JStr(entry.url))
                        \o PropertyLine(<<"t","i","t","l","e">>, entry.title)
                        \o PropertyLine(<<"s","n","i","p","p","e","t">>, entry.snippet)
                        \o PropertyLine(<<"s","o","u","r","c","e">>, entry.source)
                        \o PropertyLine(<<"a","d","d","e","d","A","t">>,
                                        JStr(IsoString(entry.addedAt))))
        \o <<Indent4 \o <<"}">>>>

\* the blocks of the entries, a comma after the closing brace of each but
\* the last
RECURSIVE EntryLines(_)
EntryLines(entries) ==
    IF entries = <<>> THEN <<>>
    ELSE LET block == EntryBlock(Head(entries))
         IN  (IF Len(entries) > 1
              THEN [block EXCEPT ![Len(block)] = @ \o <<",">>]
              ELSE block) \o EntryLines(Tail(entries))

\* JSON.stringify({ seedUrl, sources }, null, 2), as lines
SidecarLines(value) ==
    <<<<"{">>,
      Indent2 \o JsonString(<<"s","e","e","d","U","r","l">>) \o <<":", " ">>
              \o JsonString(value.seedUrl) \o <<",">>>>
        \o (IF value.sources = <<>>
            THEN <<Indent2 \o JsonString(<<"s","o","u","r","c","e","s">>)
                           \o <<":", " ", "[", "]">>>>
            ELSE <<Indent2 \o JsonString(<<"s","o","u","r","c","e","s">>)
                           \o <<":", " ", "[">>>>
                   \o EntryLines(value.sources)
                   \o <<Indent2 \o <<"]">>>>)
        \o <<<<"}">>>>

SidecarText(value) ==
    CHOOSE text \in {Join(SidecarLines(v), <<"\n">>) : v \in {value}} : TRUE

\* the string of a JSON string literal, read from after its opening quote up
\* to its closing quote
RECURSIVE ReadJsonString(_)
ReadJsonString(chars) ==
    IF chars = <<>> \/ Head(chars) = "\"" THEN <<>>
    ELSE IF Head(chars) = "\\" /\ Len(chars) >= 2
    THEN <<IF chars[2] = "n" THEN "\n" ELSE chars[2]>>
            \o ReadJsonString(SubSeq(chars, 3, Len(chars)))
    ELSE <<Head(chars)>> \o ReadJsonString(Tail(chars))

\* how the url property of an entry begins in the text
UrlLinePrefix == Indent6 \o JsonString(<<"u","r","l">>) \o <<":", " ", "\"">>

\* the URLs of the entries of a sidecar text, in the order of the text: the
\* url property of each element of sources, as JSON.parse gives it back
SidecarUrls(text) ==
    CHOOSE urls \in
        {[i \in DOMAIN urlLines |->
             ReadJsonString(SubSeq(urlLines[i], Len(UrlLinePrefix) + 1, Len(urlLines[i])))] :
           urlLines \in {SelectSeq(Split(t, "\n"),
                                   LAMBDA line : StartsWith(line, UrlLinePrefix)) :
                           t \in {text}}} : TRUE

(* ---------------------------------------------------------------------- *)
(* Inputs of the model                                                      *)
(* ---------------------------------------------------------------------- *)

\* the working root (options.workingDirectory, resolved)
WorkingDirectory == <<"/","w">>

\* values of options.reportsRoot: the default, and one that leaves the root
ReportsRoots == {<<"r","e","p","o","r","t","s">>, <<".",".","/","o","u","t","s","i","d","e">>}

SeedArxiv == <<" ","h","t","t","p","s",":","/","/","a","r","x","i","v",".","o","r","g","/","a","b","s","/","1","7","0","6",".","0","3","7","6","2"," ">>
\* arguments of run(): empty, blank, not a URL, and the URL of a paper
SeedInputs == {<<>>, <<" ", " ">>, <<"n","o","t"," ","a"," ","u","r","l">>, SeedArxiv}

ReportMd == <<"r","e","p","o","r","t",".","m","d">>
ReportHtml == <<"r","e","p","o","r","t",".","h","t","m","l">>
SourcesJson == <<"s","o","u","r","c","e","s",".","j","s","o","n">>

RECURSIVE Repeat(_, _)
Repeat(str, n) == IF n = 0 THEN <<>> ELSE str \o Repeat(str, n - 1)

LongBody == Repeat(<<"e","v","i","d","e","n","c","e"," ">>, 14)
Newline == <<"\n">>

\* report texts the engine's write tool may leave at the report path:
\* 1 is complete, 2 is the bare template, 3 lacks the References heading
Docs ==
    <<  HPaper \o Newline
        \o HProblems \o Newline \o LongBody \o Newline
        \o HSolves \o Newline \o LongBody \o Newline
        \o HRelated \o Newline \o <<"I","n"," ","c","o","n","t","r","a","s","t"," ","t","o"," ","[","3","]",","," ">> \o LongBody \o Newline
        \o HFuture \o Newline \o LongBody \o Newline
        \o HReferences \o Newline \o <<"[","3","]"," ","h","t","t","p","s",":","/","/","e","x","a","m","p","l","e",".","c","o","m","/","p","a","p","e","r">> \o Newline,
        HPaper \o Newline \o HProblems \o Newline \o Newline \o HSolves \o Newline
        \o Newline \o HRelated \o Newline \o Newline \o HFuture \o Newline \o Newline
        \o HReferences \o Newline,
        HPaper \o Newline
        \o HProblems \o Newline \o LongBody \o Newline
        \o HSolves \o Newline \o LongBody \o Newline
        \o HRelated \o Newline \o <<"U","n","l","i","k","e"," ","h","t","t","p","s",":","/","/","e","x","a","m","p","l","e",".","c","o","m","/","p","a","p","e","r"," ">> \o LongBody \o Newline
        \o HFuture \o Newline \o LongBody \o Newline  >>

\* the report texts the specification Spec lets the engine write
DocIds == {1, 2}

\* the validator's verdict on each report text, computed once
Validation == <<validateReport(Docs[1]), validateReport(Docs[2]), validateReport(Docs[3])>>

(* ---------------------------------------------------------------------- *)
(* State of one DeepResearchSession and of its environment                  *)
(* ---------------------------------------------------------------------- *)

VARIABLES
    maxTurns,      \* this.maxTurns
    reportsRoot,   \* this.reportsRoot
    currentRun,    \* this.currentRun: the call whose RunState it is, 0 if undefined
    pc,            \* per run() call: the await it is suspended at, or how it ended
    seed,          \* per call: the seedPaperUrl argument
    runState,      \* per call: the RunState object its run() created
    reportMarkdown,
                   \* per call: the local markdown of run(), the text readFile
                   \* returned (an index in Docs), 0 before
    error,         \* per call: the error run() threw
    runResult,     \* per call: the DeepResearchRunResult run() returned
    dirs,          \* file system: the directories that exist
    files,         \* file system: path -> content
    agent,         \* what the engine was given: system prompt, messages, prompts
    emitted,       \* per call: the report_finalized events it passed to emit()
    clock,         \* the time new Date() returns
    capAborts,     \* per call: agent.abort() calls made for the turn cap
    userAborted,   \* per call: abort() was called while its prompt was in flight
    produced,      \* per call: the engine's write tool wrote the report in this run
    settled,       \* per call: how agent.prompt() ended
    steps,         \* per call: the finalization steps done, in order
    idleAbortAt,   \* the number of run() calls made when abort() was last called
                   \* with no run() call in progress, -1 if it never was
    listeners,     \* this.listeners, in insertion order
    delivered,     \* per listener: the events it was called with, in order
    search,        \* one web_search execute() call: its arguments, the await it
                   \* is suspended at and what it has collected
    extraction,    \* one extract_source execute() call: its argument, the await
                   \* it is suspended at and what it has collected
    applied        \* one call of a pure function: its name, argument and value

vars == <<maxTurns, reportsRoot, currentRun, pc, seed, runState, reportMarkdown, error,
          runResult, dirs, files, agent, emitted, clock, capAborts,
          userAborted, produced, settled, steps, idleAbortAt, listeners,
          delivered, search, extraction, applied>>

\* what the operations of run() leave alone: the subscribers and the search tool
aside == <<listeners, delivered, search>>

Calls == 1..MaxCalls

NoRunState == [turnCount |-> 0, maxTurnsExceeded |-> FALSE, sources |-> EmptySources]
NoError == [kind |-> ""]
NoResult == [returned |-> FALSE]

\* the subscribers there can be, and no web_search call
Listeners == {1, 2}
NoSearch == [pc |-> "none"]
NoExtraction == [pc |-> "none"]
NotApplied == [fn |-> "none"]

\* Math.max(1, options.maxTurns)
ConstructMaxTurns(option) == IF option > 1 THEN option ELSE 1

Init ==
    /\ maxTurns \in {ConstructMaxTurns(o) : o \in 0..MaxTurnsOption}
    /\ reportsRoot \in ReportsRoots
    /\ currentRun = 0
    /\ pc = [c \in Calls |-> "idle"]
    /\ seed = [c \in Calls |-> <<>>]
    /\ runState = [c \in Calls |-> NoRunState]
    /\ reportMarkdown = [c \in Calls |-> 0]
    /\ error = [c \in Calls |-> NoError]
    /\ runResult = [c \in Calls |-> NoResult]
    /\ dirs = {WorkingDirectory}
    /\ files = [f \in {} |-> NoError]
    /\ agent = [systemPrompt |-> FALSE, messages |-> <<>>, prompts |-> 0]
    /\ emitted = [c \in Calls |-> <<>>]
    /\ clock = 0
    /\ capAborts = [c \in Calls |-> 0]
    /\ userAborted = [c \in Calls |-> FALSE]
    /\ produced = [c \in Calls |-> FALSE]
    /\ settled = [c \in Calls |-> ""]
    /\ steps = [c \in Calls |-> <<>>]
    /\ idleAbortAt = -1
    /\ listeners = <<>>
    /\ delivered = [l \in Listeners |-> <<>>]
    /\ search = NoSearch
    /\ extraction = NoExtraction
    /\ applied = NotApplied

(* ---------------------------------------------------------------------- *)
(* run(): the part before the first await (session.ts lines 345-368)        *)
(* ---------------------------------------------------------------------- *)

SeedUrl(seedPaperUrl) == ParseUrl(Trim(seedPaperUrl))

\* the paths of a call that has none
NoPaths ==
    [reportDirectory |-> Undefined, reportPath |-> Undefined,
     reportHtmlPath |-> Undefined, sourcesPath |-> Undefined]

\* lines 362-366: the four paths of a run, Undefined when
\* resolvePathWithinRoot throws
RunPaths(root, seedPaperUrl) ==
    LET paperSlug == createPaperSlug(SeedUrl(seedPaperUrl))
        reportDirectory == resolvePathWithinRoot(PathJoin(root, paperSlug), WorkingDirectory)
    IN  IF reportDirectory = Undefined
        THEN NoPaths
        ELSE [reportDirectory |-> reportDirectory,
              reportPath |-> resolvePathWithinRoot(PathJoin(reportDirectory, ReportMd),
                                                   WorkingDirectory),
              reportHtmlPath |-> resolvePathWithinRoot(PathJoin(reportDirectory, ReportHtml),
                                                       WorkingDirectory),
              sourcesPath |-> resolvePathWithinRoot(PathJoin(reportDirectory, SourcesJson),
                                                    WorkingDirectory)]

\* lines 350-360 and 362-366 computed once for every argument and every root:
\* the trimmed argument, the URL parsed from it, the paths under each root
EntryTable ==
    [seedPaperUrl \in SeedInputs |->
        [trimmed |-> Trim(seedPaperUrl),
         url |-> SeedUrl(seedPaperUrl),
         paths |-> [root \in ReportsRoots |->
                       IF SeedUrl(seedPaperUrl).ok THEN RunPaths(root, seedPaperUrl)
                       ELSE NoPaths]]]

ReportDirectory(seedPaperUrl) == EntryTable[seedPaperUrl].paths[reportsRoot].reportDirectory
ReportPath(seedPaperUrl) == EntryTable[seedPaperUrl].paths[reportsRoot].reportPath
ReportHtmlPath(seedPaperUrl) == EntryTable[seedPaperUrl].paths[reportsRoot].reportHtmlPath
SourcesPath(seedPaperUrl) == EntryTable[seedPaperUrl].paths[reportsRoot].sourcesPath

\* toPromptPath for a path inside the root
toPromptPath(absolutePath) ==
    IF absolutePath = WorkingDirectory THEN <<".">>
    ELSE SubSeq(absolutePath, Len(WorkingDirectory) + 2, Len(absolutePath))

\* RunEntryError without the confinement of the report directory to the
\* working root: the variant C10 is checked against
RunEntryErrorUnconfined(seedPaperUrl) ==
    IF currentRun # 0 THEN "in_progress"
    ELSE IF Len(EntryTable[seedPaperUrl].trimmed) = 0 THEN "empty"
    ELSE IF ~EntryTable[seedPaperUrl].url.ok THEN "invalid"
    ELSE ""

\* the error run() throws before its first await, "" when it throws none
RunEntryError(seedPaperUrl) ==
    IF currentRun # 0 THEN "in_progress"
    ELSE IF Len(EntryTable[seedPaperUrl].trimmed) = 0 THEN "empty"
    ELSE IF ~EntryTable[seedPaperUrl].url.ok THEN "invalid"
    ELSE IF ReportDirectory(seedPaperUrl) = Undefined THEN "outside"
    ELSE ""

\* the run() calls made so far; the next one is call Entered + 1
Entered == Cardinality({c \in Calls : pc[c] # "idle"})

\* a run() call, up to its await of mkdir or to the error it throws before
run(seedPaperUrl) ==
    /\ Entered < MaxCalls
    /\ seed' = [seed EXCEPT ![Entered + 1] = seedPaperUrl]
    /\ IF RunEntryError(seedPaperUrl) # ""
       THEN /\ pc' = [pc EXCEPT ![Entered + 1] = "threw"]
            /\ error' = [error EXCEPT ![Entered + 1] =
                            [kind |-> RunEntryError(seedPaperUrl)]]
       ELSE /\ pc' = [pc EXCEPT ![Entered + 1] = "mkdir"]
            /\ UNCHANGED error
    /\ UNCHANGED <<extraction, applied, aside, idleAbortAt, maxTurns, reportsRoot, currentRun, runState, reportMarkdown, runResult, dirs,
                   files, agent, emitted, clock, capAborts, userAborted, produced,
                   settled, steps>>

(* ---------------------------------------------------------------------- *)
(* run(): from mkdir to the prompt (session.ts lines 368-401)               *)
(* ---------------------------------------------------------------------- *)

SeedPaper == <<"S","e","e","d"," ","P","a","p","e","r">>
SeedTag == <<"s","e","e","d">>

\* a RunState that goes on from the one of the first call: its count, its
\* flag and its table, to which the seed is added
NewRunStateCarried(seedPaperUrl) ==
    [turnCount |-> runState[1].turnCount,
     maxTurnsExceeded |-> runState[1].maxTurnsExceeded,
     sources |-> addSource(runState[1].sources,
                           [url |-> UrlToString(EntryTable[seedPaperUrl].url),
                            title |-> JStr(SeedPaper),
                            snippet |-> JUndefined,
                            source |-> JStr(SeedTag)],
                           clock)]

\* the RunState of lines 370-381: fresh, with the seed as its one source
NewRunState(seedPaperUrl) ==
    [turnCount |-> 0,
     maxTurnsExceeded |-> FALSE,
     sources |-> addSource(EmptySources,
                           [url |-> UrlToString(EntryTable[seedPaperUrl].url),
                            title |-> JStr(SeedPaper),
                            snippet |-> JUndefined,
                            source |-> JStr(SeedTag)],
                           clock)]

\* mkdir resolved: the RunState is created and installed, the engine is
\* given its system prompt, the status message and the prompt
MkdirResolved(c) ==
    /\ pc[c] = "mkdir"
    /\ dirs' = dirs \cup {ReportDirectory(seed[c])}
    /\ runState' = [runState EXCEPT ![c] = NewRunState(seed[c])]
    /\ currentRun' = c
    /\ agent' = [systemPrompt |-> TRUE,
                 messages |-> Append(agent.messages, "initialized"),
                 prompts |-> agent.prompts + 1]
    /\ pc' = [pc EXCEPT ![c] = "prompt"]
    /\ UNCHANGED <<extraction, applied, aside, idleAbortAt, maxTurns, reportsRoot, seed, reportMarkdown, error, runResult, files, emitted, clock, capAborts, userAborted, produced, settled,
                   steps>>

\* mkdir rejected: run() throws its error
MkdirRejected(c) ==
    /\ pc[c] = "mkdir"
    /\ pc' = [pc EXCEPT ![c] = "threw"]
    /\ error' = [error EXCEPT ![c] = [kind |-> "mkdir"]]
    /\ UNCHANGED <<extraction, applied, aside, idleAbortAt, maxTurns, reportsRoot, currentRun, seed, runState, reportMarkdown, runResult,
                   dirs, files, agent, emitted, clock, capAborts,
                   userAborted, produced, settled, steps>>

(* ---------------------------------------------------------------------- *)
(* Events of the engine (session.ts lines 327-343) and abort()              *)
(* ---------------------------------------------------------------------- *)

\* CapReached without the test of maxTurnsExceeded: the variant C3 is
\* checked against
CapReachedAgain(rs) == rs.turnCount >= maxTurns

\* line 331: the turn cap is reached and was not reached before
CapReached(rs) == rs.turnCount >= maxTurns /\ ~rs.maxTurnsExceeded

\* lines 329-335 on the current RunState
handleTurnEnd(rs) ==
    LET counted == [rs EXCEPT !.turnCount = @ + 1]
    IN  IF CapReached(counted) THEN [counted EXCEPT !.maxTurnsExceeded = TRUE]
        ELSE counted

\* whether lines 329-335 call this.agent.abort()
AbortsOnTurnEnd(rs) == CapReached([rs EXCEPT !.turnCount = @ + 1])

\* the RunState after handleAgentEvent(event)
handleAgentEvent(rs, event) ==
    IF event.type = "turn_end" THEN handleTurnEnd(rs)
    ELSE IF event.type = "tool_execution_end"
    THEN [rs EXCEPT !.sources = ingestToolSources(@, event.toolName, event.result, clock)]
    ELSE rs

\* the subscribers that throw when they are called
Throwing == {2}

\* emit(event): the listeners are called in insertion order; a throw of one
\* ends the loop, there being no try around the call (lines 270-274)
RECURSIVE emit(_, _, _)
emit(ls, log, event) ==
    IF ls = <<>> THEN log
    ELSE IF Head(ls) \in Throwing
    THEN [log EXCEPT ![Head(ls)] = Append(@, event)]
    ELSE emit(Tail(ls), [log EXCEPT ![Head(ls)] = Append(@, event)], event)

\* the engine delivers an event to the controller's subscription: the
\* bookkeeping of the active run, then the event is passed on to the listeners
EngineEvent(event) ==
    /\ currentRun # 0 /\ event.type = "turn_end"
          => runState[currentRun].turnCount < maxTurns + MaxExtraTurns
    /\ IF currentRun = 0
       THEN UNCHANGED <<runState, capAborts>>
       ELSE /\ runState' = [runState EXCEPT
                               ![currentRun] = handleAgentEvent(@, event)]
            /\ capAborts' = [capAborts EXCEPT ![currentRun] =
                               IF event.type = "turn_end"
                                  /\ AbortsOnTurnEnd(runState[currentRun])
                               THEN @ + 1 ELSE @]
    /\ delivered' = emit(listeners, delivered, event)
    /\ UNCHANGED <<extraction, applied, listeners, search, idleAbortAt, maxTurns, reportsRoot, currentRun, pc, seed, reportMarkdown, error, runResult,
                   dirs, files, agent, emitted, clock, userAborted, produced,
                   settled, steps>>

\* no run() call is between its entry and its return or throw
NoCallInProgress == \A c \in Calls : pc[c] \in {"idle", "threw", "returned"}

\* an abort() whose request stays pending for the prompts not yet started
abortKeepsRequest ==
    /\ userAborted' = [c \in Calls |->
                          userAborted[c] \/ pc[c] \in {"idle", "mkdir", "prompt"}]
    /\ UNCHANGED <<extraction, applied, aside, maxTurns, reportsRoot, currentRun, pc, seed, runState, reportMarkdown,
                   error, runResult, dirs, files, agent, emitted, clock,
                   capAborts, produced, settled, steps>>

\* abort(): the engine is asked to stop; it reaches the prompts in flight
abort ==
    /\ userAborted' = [c \in Calls |-> userAborted[c] \/ pc[c] = "prompt"]
    /\ UNCHANGED <<extraction, applied, aside, maxTurns, reportsRoot, currentRun, pc, seed, runState, reportMarkdown,
                   error, runResult, dirs, files, agent, emitted, clock,
                   capAborts, produced, settled, steps>>

\* the engine's write tool writes a report text at the report path of a run
\* whose prompt is in flight (write tool, execute)
EngineWriteReport(c, d) ==
    /\ pc[c] = "prompt"
    /\ dirs' = dirs \cup {ReportDirectory(seed[c])}
    /\ files' = (ReportPath(seed[c]) :> [kind |-> "md", doc |-> d]) @@ files
    /\ produced' = [produced EXCEPT ![c] = TRUE]
    /\ UNCHANGED <<extraction, applied, aside, idleAbortAt, maxTurns, reportsRoot, currentRun, pc, seed, runState, reportMarkdown,
                   error, runResult, agent, emitted, clock, capAborts,
                   userAborted, settled, steps>>

(* ---------------------------------------------------------------------- *)
(* run(): after the prompt (session.ts lines 400-452)                       *)
(* ---------------------------------------------------------------------- *)

\* TurnCapError that never throws: the variant C5 is checked against
TurnCapErrorNever(rs) == NoError

\* lines 406-408: the turn-cap error, thrown when the prompt resolved
TurnCapError(rs) ==
    IF rs.maxTurnsExceeded THEN [kind |-> "max_turns", cap |-> maxTurns] ELSE NoError

\* agent.prompt() resolved: the finally block clears this.currentRun, then the
\* cap is looked at and readFile is issued
PromptResolved(c) ==
    /\ pc[c] = "prompt"
    /\ currentRun' = 0
    /\ settled' = [settled EXCEPT ![c] = "resolved"]
    /\ IF TurnCapError(runState[c]) # NoError
       THEN /\ pc' = [pc EXCEPT ![c] = "threw"]
            /\ error' = [error EXCEPT ![c] = TurnCapError(runState[c])]
       ELSE /\ pc' = [pc EXCEPT ![c] = "read"]
            /\ UNCHANGED error
    /\ UNCHANGED <<extraction, applied, aside, idleAbortAt, maxTurns, reportsRoot, seed, runState, reportMarkdown, runResult, dirs, files, agent, emitted, clock, capAborts, userAborted,
                   produced, steps>>

\* agent.prompt() rejected: the finally block clears this.currentRun and the
\* engine's error leaves run()
PromptRejected(c) ==
    /\ pc[c] = "prompt"
    /\ currentRun' = 0
    /\ settled' = [settled EXCEPT ![c] = "rejected"]
    /\ pc' = [pc EXCEPT ![c] = "threw"]
    /\ error' = [error EXCEPT ![c] = [kind |-> "engine"]]
    /\ UNCHANGED <<extraction, applied, aside, idleAbortAt, maxTurns, reportsRoot, seed, runState, reportMarkdown, runResult, dirs, files, agent, emitted, clock, capAborts, userAborted,
                   produced, steps>>

\* what readFile(reportPath) gives: the text at the path, 0 when it rejects
readFile(path) ==
    IF path \in DOMAIN files /\ files[path].kind = "md" THEN files[path].doc ELSE 0

\* readFile settled (lines 410-422): the artifact-missing error, or the
\* report is rendered and the write of the rendered document is issued
ReadSettled(c) ==
    /\ pc[c] = "read"
    /\ IF readFile(ReportPath(seed[c])) = 0
       THEN /\ pc' = [pc EXCEPT ![c] = "threw"]
            /\ error' = [error EXCEPT ![c] =
                            [kind |-> "missing",
                             path |-> toPromptPath(ReportPath(seed[c]))]]
            /\ UNCHANGED <<reportMarkdown, steps>>
       ELSE /\ pc' = [pc EXCEPT ![c] = "writeHtml"]
            /\ reportMarkdown' = [reportMarkdown EXCEPT ![c] = readFile(ReportPath(seed[c]))]
            /\ steps' = [steps EXCEPT ![c] = Append(@, "read")]
            /\ UNCHANGED error
    /\ UNCHANGED <<extraction, applied, aside, idleAbortAt, maxTurns, reportsRoot, currentRun, seed, runState, runResult, dirs, files, agent, emitted, clock, capAborts, userAborted,
                   produced, settled>>

\* writeFile(reportHtmlPath) resolved (lines 422-425): the sources are
\* sorted and the write of the sidecar is issued
WriteHtmlResolved(c) ==
    /\ pc[c] = "writeHtml"
    /\ files' = (ReportHtmlPath(seed[c]) :> [kind |-> "html", doc |-> reportMarkdown[c]]) @@ files
    /\ steps' = [steps EXCEPT ![c] = Append(@, "writeHtml")]
    /\ pc' = [pc EXCEPT ![c] = "writeSources"]
    /\ UNCHANGED <<extraction, applied, aside, idleAbortAt, maxTurns, reportsRoot, currentRun, seed, runState, reportMarkdown, error,
                   runResult, dirs, agent, emitted, clock, capAborts,
                   userAborted, produced, settled>>

\* a writeFile of an artifact rejected: its error leaves run()
WriteRejected(c) ==
    /\ pc[c] \in {"writeHtml", "writeSources"}
    /\ pc' = [pc EXCEPT ![c] = "threw"]
    /\ error' = [error EXCEPT ![c] = [kind |-> "write"]]
    /\ UNCHANGED <<extraction, applied, aside, idleAbortAt, maxTurns, reportsRoot, currentRun, seed, runState, reportMarkdown, runResult,
                   dirs, files, agent, emitted, clock, capAborts,
                   userAborted, produced, settled, steps>>

\* FinalizedEvent with the sidecar's path given as the rendered document's:
\* the variant C9 is checked against
FinalizedEventMixed(c) ==
    [type |-> "report_finalized",
     reportPath |-> ReportPath(seed[c]),
     reportHtmlPath |-> SourcesPath(seed[c]),
     sourcesPath |-> SourcesPath(seed[c]),
     validation |-> Validation[reportMarkdown[c]]]

\* the report_finalized event of lines 435-441
FinalizedEvent(c) ==
    [type |-> "report_finalized",
     reportPath |-> ReportPath(seed[c]),
     reportHtmlPath |-> ReportHtmlPath(seed[c]),
     sourcesPath |-> SourcesPath(seed[c]),
     validation |-> Validation[reportMarkdown[c]]]

\* the DeepResearchRunResult of lines 443-451
RunResult(c) ==
    [returned |-> TRUE,
     seedUrl |-> UrlToString(EntryTable[seed[c]].url),
     reportDirectory |-> ReportDirectory(seed[c]),
     reportPath |-> ReportPath(seed[c]),
     reportHtmlPath |-> ReportHtmlPath(seed[c]),
     sourcesPath |-> SourcesPath(seed[c]),
     turnCount |-> runState[c].turnCount,
     validation |-> Validation[reportMarkdown[c]]]

\* FinishOutcome that fails a run whose report is incomplete: the variant C8
\* is checked against
FinishOutcomeStrict(validation, listenerThrows) ==
    IF listenerThrows THEN "listener"
    ELSE IF ~validation.isComplete THEN "incomplete"
    ELSE ""

\* lines 427-451: the error that leaves run() once the validator has run, ""
\* when run() returns.  Only a listener that throws out of emit() gives one;
\* the validation is put in the event and in the result and not looked at
FinishOutcome(validation, listenerThrows) ==
    IF listenerThrows THEN "listener" ELSE ""

\* writeFile(sourcesPath) resolved (lines 425-452): the validator runs, the
\* engine gets the status message, the event is emitted and run() returns
WriteSourcesResolved(c, listenerThrows) ==
    /\ pc[c] = "writeSources"
    /\ files' = (SourcesPath(seed[c]) :>
                    [kind |-> "json",
                     seedUrl |-> UrlToString(EntryTable[seed[c]].url),
                     sources |-> SortedSources(runState[c].sources)]) @@ files
    /\ agent' = [agent EXCEPT !.messages = Append(@, "finalized")]
    /\ emitted' = [emitted EXCEPT ![c] = Append(@, FinalizedEvent(c))]
    /\ IF FinishOutcome(Validation[reportMarkdown[c]], listenerThrows) = ""
       THEN /\ pc' = [pc EXCEPT ![c] = "returned"]
            /\ runResult' = [runResult EXCEPT ![c] = RunResult(c)]
            /\ steps' = [steps EXCEPT ![c] =
                            @ \o <<"writeSources", "validate", "emit", "return">>]
            /\ UNCHANGED error
       ELSE /\ pc' = [pc EXCEPT ![c] = "threw"]
            /\ error' = [error EXCEPT ![c] =
                            [kind |-> FinishOutcome(Validation[reportMarkdown[c]],
                                                    listenerThrows)]]
            /\ steps' = [steps EXCEPT ![c] = @ \o <<"writeSources", "validate", "emit">>]
            /\ UNCHANGED runResult
    /\ UNCHANGED <<extraction, applied, aside, idleAbortAt, maxTurns, reportsRoot, currentRun, seed, runState, reportMarkdown, dirs, clock, capAborts, userAborted, produced, settled>>

(* ---------------------------------------------------------------------- *)
(* The specification                                                        *)
(* ---------------------------------------------------------------------- *)

\* a search result for a paper that is not the seed
FoundUrl == <<"h","t","t","p","s",":","/","/","e","x","a","m","p","l","e",".","c","o","m","/","p","a","p","e","r">>
SearchDetails ==
    JObj([query |-> JStr(<<"q">>),
          results |-> JArr(<<JObj([title |-> JStr(<<"T">>),
                                   url |-> JStr(FoundUrl),
                                   snippet |-> JStr(<<>>),
                                   source |-> JStr(<<"a","r","x","i","v">>)])>>)])

\* the engine events of the specification: a turn boundary, a message, and
\* the result of a search
Events ==
    {[type |-> "turn_end"],
     [type |-> "message_end"],
     [type |-> "tool_execution_end", toolName |-> "web_search",
      result |-> JObj([details |-> SearchDetails])]}

Next ==
    \/ \E seedPaperUrl \in SeedInputs : run(seedPaperUrl)
    \/ \E c \in Calls : MkdirResolved(c)
    \/ \E c \in Calls : MkdirRejected(c)
    \/ \E event \in Events : EngineEvent(event)
    \/ abort /\ UNCHANGED idleAbortAt
    \/ \E c \in Calls : \E d \in DocIds : EngineWriteReport(c, d)
    \/ \E c \in Calls : PromptResolved(c)
    \/ \E c \in Calls : PromptRejected(c)
    \/ \E c \in Calls : ReadSettled(c)
    \/ \E c \in Calls : WriteHtmlResolved(c)
    \/ \E c \in Calls : WriteRejected(c)
    \/ \E c \in Calls : \E listenerThrows \in BOOLEAN : WriteSourcesResolved(c, listenerThrows)

Spec == Init /\ [][Next]_vars

\* The same operations with a record kept of the abort() calls made while no
\* run() call is in progress, for one construction of the controller
InitAbort == Init /\ maxTurns = 1 /\ reportsRoot = <<"r","e","p","o","r","t","s">>

AbortNoted ==
    /\ abort
    /\ idleAbortAt' = IF NoCallInProgress THEN Entered ELSE idleAbortAt

NextAbort ==
    \/ \E seedPaperUrl \in SeedInputs : run(seedPaperUrl)
    \/ \E c \in Calls : MkdirResolved(c)
    \/ \E c \in Calls : MkdirRejected(c)
    \/ \E event \in Events : EngineEvent(event)
    \/ AbortNoted
    \/ \E c \in Calls : \E d \in DocIds : EngineWriteReport(c, d)
    \/ \E c \in Calls : PromptResolved(c)
    \/ \E c \in Calls : PromptRejected(c)
    \/ \E c \in Calls : ReadSettled(c)
    \/ \E c \in Calls : WriteHtmlResolved(c)
    \/ \E c \in Calls : WriteRejected(c)
    \/ \E c \in Calls : \E listenerThrows \in BOOLEAN : WriteSourcesResolved(c, listenerThrows)

SpecAbort == InitAbort /\ [][NextAbort]_vars

(* ---------------------------------------------------------------------- *)
(* One run with many observations of sources                                *)
(* ---------------------------------------------------------------------- *)

MaxClock == 2

\* the same address in two textual forms, as a provider or a page reports it
SiteBare == <<"h","t","t","p","s",":","/","/","a",".","o","r","g">>
SiteSlash == <<"h","t","t","p","s",":","/","/","a",".","o","r","g","/">>
\* an address with a character that JSON escapes
SiteQuote == <<"h","t","t","p","s",":","/","/","a",".","o","r","g","/","\"">>
SeedKey == UrlToString(EntryTable[SeedArxiv].url)

\* the sources that search results and extractions report (the argument of
\* addSource at lines 306-311 and 318-323)
SearchObservations ==
    {[url |-> u, title |-> JStr(t), snippet |-> JStr(sn),
      source |-> JStr(<<"a","r","x","i","v">>)] :
        u \in {SiteBare, SiteSlash, SeedKey},
        t \in {<<>>, <<"T">>},
        sn \in {<<>>, <<"s">>}}

ExtractObservations ==
    {[url |-> u, title |-> JStr(<<"\"">>), snippet |-> ab,
      source |-> JStr(<<"h","t","m","l">>)] :
        u \in {SiteQuote, SeedKey},
        ab \in {JUndefined, JStr(<<"a">>)}}

Observations == SearchObservations \cup ExtractObservations

\* the tool_execution_end event that reports an observation
SearchEventOf(o) ==
    [type |-> "tool_execution_end", toolName |-> "web_search",
     result |-> JObj([details |->
                 JObj([query |-> JStr(<<"q">>),
                       results |-> JArr(<<JObj([title |-> o.title,
                                                url |-> JStr(o.url),
                                                snippet |-> o.snippet,
                                                source |-> o.source])>>)])])]

ExtractEventOf(o) ==
    [type |-> "tool_execution_end", toolName |-> "extract_source",
     result |-> JObj([details |->
                 JObj([title |-> o.title,
                       canonicalUrl |-> JStr(o.url),
                       sourceType |-> o.source,
                       abstract |-> o.snippet])])]

SourceEvents ==
    {SearchEventOf(o) : o \in SearchObservations}
        \cup {ExtractEventOf(o) : o \in ExtractObservations}

\* time passes between two readings of new Date()
Tick ==
    /\ clock < MaxClock
    /\ clock' = clock + 1
    /\ UNCHANGED <<extraction, applied, aside, idleAbortAt, maxTurns, reportsRoot, currentRun, pc, seed,
                   runState, reportMarkdown, error, runResult, dirs, files, agent,
                   emitted, capAborts, userAborted, produced, settled, steps>>

InitSources == Init /\ maxTurns = 1 /\ reportsRoot = <<"r","e","p","o","r","t","s">>

NextSources ==
    \/ Entered = 0 /\ run(SeedArxiv)
    \/ MkdirResolved(1)
    \/ \E event \in SourceEvents : EngineEvent(event)
    \/ Tick
    \/ EngineWriteReport(1, 1)
    \/ PromptResolved(1)
    \/ ReadSettled(1)
    \/ WriteHtmlResolved(1)
    \/ WriteSourcesResolved(1, FALSE)

SpecSources == InitSources /\ [][NextSources]_vars

(* ---------------------------------------------------------------------- *)
(* Subscribers and the events passed on to them                             *)
(* ---------------------------------------------------------------------- *)

MaxDelivered == 2

\* subscribe(listener): Set.add, a listener already in the set stays in place
subscribe(l) ==
    /\ listeners' = IF l \in Range(listeners) THEN listeners ELSE Append(listeners, l)
    /\ UNCHANGED <<extraction, applied, delivered, search, idleAbortAt, maxTurns, reportsRoot, currentRun, pc,
                   seed, runState, reportMarkdown, error, runResult, dirs, files,
                   agent, emitted, clock, capAborts, userAborted, produced,
                   settled, steps>>

\* the function subscribe returned is called: Set.delete
unsubscribe(l) ==
    /\ l \in Range(listeners)
    /\ listeners' = SelectSeq(listeners, LAMBDA x : x # l)
    /\ UNCHANGED <<extraction, applied, delivered, search, idleAbortAt, maxTurns, reportsRoot, currentRun, pc,
                   seed, runState, reportMarkdown, error, runResult, dirs, files,
                   agent, emitted, clock, capAborts, userAborted, produced,
                   settled, steps>>

ToolEnd(toolName, payload) ==
    [type |-> "tool_execution_end", toolName |-> toolName, result |-> payload]

GoodEntry ==
    JObj([title |-> JStr(<<"T">>), url |-> JStr(SiteBare), snippet |-> JStr(<<"s">>),
          source |-> JStr(<<"a","r","x","i","v">>)])

\* tool results that do not have the shape the guards of lines 85-114 ask for
MalformedEvents ==
    {\* the result is not a record
     ToolEnd("web_search", JStr(<<"x">>)),
     \* no details
     ToolEnd("web_search", JObj([content |-> JArr(<<>>)])),
     \* a field that is not a string
     ToolEnd("web_search",
             JObj([details |-> JObj([query |-> JNum(1), results |-> JArr(<<GoodEntry>>)])])),
     ToolEnd("extract_source",
             JObj([details |-> JObj([title |-> JStr(<<"X">>), canonicalUrl |-> JStr(SiteBare),
                                     sourceType |-> JStr(<<"h","t","m","l">>),
                                     abstract |-> JNum(42)])])),
     \* a source kind that is none of arxiv, pdf, html, other
     ToolEnd("extract_source",
             JObj([details |-> JObj([title |-> JStr(<<"X">>), canonicalUrl |-> JStr(SiteBare),
                                     sourceType |-> JStr(<<"v","i","d","e","o">>)])])),
     \* a results list with a well-formed entry and a malformed one
     ToolEnd("web_search",
             JObj([details |-> JObj([query |-> JStr(<<"q">>),
                                     results |-> JArr(<<GoodEntry,
                                                        JObj([title |-> JStr(<<"T">>),
                                                              url |-> JStr(SiteSlash)])>>)])]))}

\* the events the engine sends: malformed tool results, a well-formed one, a
\* turn boundary and a message
ListenerEvents ==
    MalformedEvents
        \cup {ToolEnd("web_search",
                      JObj([details |-> JObj([query |-> JStr(<<"q">>),
                                              results |-> JArr(<<GoodEntry>>)])])),
              [type |-> "turn_end"],
              [type |-> "message_end"]}

InitEvents == Init /\ maxTurns = 1 /\ reportsRoot = <<"r","e","p","o","r","t","s">>

NextEvents ==
    \/ Entered = 0 /\ run(SeedArxiv)
    \/ MkdirResolved(1)
    \/ PromptResolved(1)
    \/ \E l \in Listeners : subscribe(l)
    \/ \E l \in Listeners : unsubscribe(l)
    \/ \E event \in ListenerEvents :
          /\ \A l \in Listeners : Len(delivered[l]) < MaxDelivered
          /\ EngineEvent(event)

SpecEvents == InitEvents /\ [][NextEvents]_vars

(* ---------------------------------------------------------------------- *)
(* The web_search tool (web-search.ts)                                      *)
(* ---------------------------------------------------------------------- *)

MaxLimit == 2
MaxPapers == 3
DefaultLimit == 5

\* value?.trim()
OptionalTrim(value) == IF value.t = "string" THEN JStr(Trim(value.s)) ELSE JUndefined

\* array.slice(0, n)
Slice(items, n) == SubSeq(items, 1, IF n < Len(items) THEN n ELSE Len(items))

ArxivAbs == <<"h","t","t","p","s",":","/","/","a","r","x","i","v",".","o","r","g","/","a","b","s","/">>
UntitledPaper == <<"U","n","t","i","t","l","e","d"," ","p","a","p","e","r">>
UntitledArxivPaper == <<"U","n","t","i","t","l","e","d"," ","a","r","X","i","v"," ","p","a","p","e","r">>
NoAbstract == <<"N","o"," ","a","b","s","t","r","a","c","t">>
SemanticScholarTag == <<"s","e","m","a","n","t","i","c","-","s","c","h","o","l","a","r">>
ArxivTag == <<"a","r","x","i","v">>

\* lines 85-89: the URL of a paper, its own or the one made of its arXiv id,
\* undefined if it has neither
PaperUrl(paper) ==
    Or(OptionalTrim(paper.url),
       IF Truthy(paper.arxivId) THEN JStr(ArxivAbs \o paper.arxivId.s) ELSE JUndefined)

\* lines 97-102: the result made of a paper that has a URL
PaperResult(paper) ==
    [title |-> Or(OptionalTrim(paper.title), JStr(UntitledPaper)).s,
     url |-> PaperUrl(paper).s,
     snippet |-> NoAbstract,
     source |-> SemanticScholarTag]

\* searchSemanticScholar after its fetch: map, filter, slice (lines 81-104)
searchSemanticScholar(papers, limit) ==
    Slice([i \in DOMAIN SelectSeq(papers, LAMBDA p : Truthy(PaperUrl(p))) |->
              PaperResult(SelectSeq(papers, LAMBDA p : Truthy(PaperUrl(p)))[i])],
          limit)

\* searchArxiv after its fetch, on the tags taken from the entries: the
\* entries without an id are skipped (lines 123-140)
searchArxiv(entries, limit) ==
    Slice([i \in DOMAIN SelectSeq(entries, LAMBDA e : Truthy(e.id)) |->
              [title |-> Or(SelectSeq(entries, LAMBDA e : Truthy(e.id))[i].title,
                            JStr(UntitledArxivPaper)).s,
               url |-> SelectSeq(entries, LAMBDA e : Truthy(e.id))[i].id.s,
               snippet |-> NoAbstract,
               source |-> ArxivTag]],
          limit)

\* dedupeResults: the first result of every url, in order
RECURSIVE dedupeFrom(_, _)
dedupeFrom(results, seen) ==
    IF results = <<>> THEN <<>>
    ELSE IF Head(results).url \in seen THEN dedupeFrom(Tail(results), seen)
    ELSE <<Head(results)>> \o dedupeFrom(Tail(results), seen \cup {Head(results).url})

dedupeResults(results) == dedupeFrom(results, {})

\* a provider's error is left out of providerErrors
PushErrorDropped(errors, label, message) == errors

\* providerErrors.push(`${label}: ${message}`)
PushError(errors, label, message) == Append(errors, label \o <<":", " ">> \o message)

\* a search that fails as soon as a provider has failed
SearchFailsStrict(results, errors) == results = <<>> \/ errors # <<>>

\* line 205: the search fails when it has no result
SearchFails(results, errors) == results = <<>>

\* lines 205-217: the search ends, with the error it throws or with details
Finish(s) ==
    IF SearchFails(s.results, s.providerErrors)
    THEN [s EXCEPT !.pc = "threw", !.thrown = "No search results available"]
    ELSE [s EXCEPT !.pc = "returned",
                   !.details = [query |-> s.query,
                                results |-> s.results,
                                providerErrors |-> IF s.providerErrors # <<>>
                                                   THEN JArr(s.providerErrors)
                                                   ELSE JUndefined]]

\* what a provider's fetch gives: an exception, or the items of its answer
NotQueried == [kind |-> "none"]
Threw == [kind |-> "threw", message |-> <<"b","o","o","m">>]

PaperA == [title |-> JStr(<<"A">>), url |-> JStr(SiteBare), arxivId |-> JUndefined]
PaperB == [title |-> JStr(<<"B">>), url |-> JStr(<<" ">> \o SiteBare), arxivId |-> JUndefined]
PaperC == [title |-> JUndefined, url |-> JUndefined, arxivId |-> JStr(<<"1">>)]
PaperD == [title |-> JStr(<<"D">>), url |-> JStr(<<" ">>), arxivId |-> JUndefined]
Papers == {PaperA, PaperB, PaperC, PaperD}

EntryC == [title |-> JStr(<<"C">>), id |-> JStr(ArxivAbs \o <<"1">>)]
EntryE == [title |-> JUndefined, id |-> JStr(ArxivAbs \o <<"2">>)]
EntryN == [title |-> JStr(<<"N">>), id |-> JUndefined]
Entries == {EntryC, EntryE, EntryN}

SeqsUpTo(S, n) == UNION {[1..k -> S] : k \in 0..n}

PrimaryResponses ==
    {Threw} \cup {[kind |-> "ok", items |-> ps] : ps \in SeqsUpTo(Papers, MaxPapers)}
SecondaryResponses ==
    {Threw} \cup {[kind |-> "ok", items |-> es] : es \in SeqsUpTo(Entries, MaxPapers)}

\* params.query and params.limit
Queries == {<<" ">>, <<" ", "q">>}
LimitParams == {JUndefined} \cup {JNum(n) : n \in 1..MaxLimit}

\* execute, up to its await of searchSemanticScholar or to the error of an
\* empty query (lines 178-187)
execute(queryParam, limitParam) ==
    /\ search.pc = "none"
    /\ search' = IF Trim(queryParam) = <<>>
                 THEN [pc |-> "threw", thrown |-> "Query must not be empty.",
                       query |-> Trim(queryParam), limit |-> 0,
                       results |-> <<>>, providerErrors |-> <<>>,
                       primary |-> NotQueried, secondary |-> NotQueried,
                       details |-> JUndefined]
                 ELSE [pc |-> "semanticScholar", thrown |-> "",
                       query |-> Trim(queryParam),
                       limit |-> IF limitParam.t = "undefined" THEN DefaultLimit
                                 ELSE limitParam.n,
                       results |-> <<>>, providerErrors |-> <<>>,
                       primary |-> NotQueried, secondary |-> NotQueried,
                       details |-> JUndefined]
    /\ UNCHANGED <<extraction, applied, listeners, delivered, idleAbortAt, maxTurns, reportsRoot,
                   currentRun, pc, seed, runState, reportMarkdown, error,
                   runResult, dirs, files, agent, emitted, clock, capAborts,
                   userAborted, produced, settled, steps>>

\* the search after searchSemanticScholar settled (lines 188-193)
AfterSemanticScholar(s, response) ==
    IF response.kind = "threw"
    THEN [s EXCEPT !.primary = response,
                   !.providerErrors = PushError(@, SemanticScholarTag, response.message)]
    ELSE [s EXCEPT !.primary = [kind |-> "ok",
                                results |-> searchSemanticScholar(response.items, s.limit)],
                   !.results = searchSemanticScholar(response.items, s.limit)]

\* the second provider asked whatever the first gave
AlwaysAsksArxiv(results, limit) == TRUE

\* line 195: results.length < limit
AsksArxiv(results, limit) == Len(results) < limit

\* searchSemanticScholar settled: the second provider is asked if the first
\* gave fewer than limit results, else the search ends
SemanticScholarSettled(response) ==
    /\ search.pc = "semanticScholar"
    /\ search' = IF AsksArxiv(AfterSemanticScholar(search, response).results, search.limit)
                 THEN [AfterSemanticScholar(search, response) EXCEPT !.pc = "arxiv"]
                 ELSE Finish(AfterSemanticScholar(search, response))
    /\ UNCHANGED <<extraction, applied, listeners, delivered, idleAbortAt, maxTurns, reportsRoot,
                   currentRun, pc, seed, runState, reportMarkdown, error,
                   runResult, dirs, files, agent, emitted, clock, capAborts,
                   userAborted, produced, settled, steps>>

\* the search after searchArxiv settled (lines 195-203)
AfterArxiv(s, response) ==
    IF response.kind = "threw"
    THEN [s EXCEPT !.secondary = response,
                   !.providerErrors = PushError(@, ArxivTag, response.message)]
    ELSE [s EXCEPT !.secondary = [kind |-> "ok",
                                  results |-> searchArxiv(response.items, s.limit)],
                   !.results = Slice(dedupeResults(@ \o searchArxiv(response.items, s.limit)),
                                     s.limit)]

\* searchArxiv settled: the search ends
ArxivSettled(response) ==
    /\ search.pc = "arxiv"
    /\ search' = Finish(AfterArxiv(search, response))
    /\ UNCHANGED <<extraction, applied, listeners, delivered, idleAbortAt, maxTurns, reportsRoot,
                   currentRun, pc, seed, runState, reportMarkdown, error,
                   runResult, dirs, files, agent, emitted, clock, capAborts,
                   userAborted, produced, settled, steps>>

InitSearch == Init /\ maxTurns = 1 /\ reportsRoot = <<"r","e","p","o","r","t","s">>

NextSearch ==
    \/ \E queryParam \in Queries : \E limitParam \in LimitParams :
          execute(queryParam, limitParam)
    \/ \E response \in PrimaryResponses : SemanticScholarSettled(response)
    \/ \E response \in SecondaryResponses : ArxivSettled(response)

SpecSearch == InitSearch /\ [][NextSearch]_vars

(* ---------------------------------------------------------------------- *)
(* The extract_source tool (tools/extract-source.ts)                        *)
(* ---------------------------------------------------------------------- *)

MAX_ABSTRACT_CHARS == 1500
MAX_FULL_TEXT_CHARS == 30000

\* the character U+2026, one element of a string
Ellipsis == "..."

\* .replace(/\s+/g, " "): every run of white space becomes one space
RECURSIVE CollapseWhitespace(_)
CollapseWhitespace(str) ==
    IF str = <<>> THEN <<>>
    ELSE IF Head(str) \notin Whitespace THEN <<Head(str)>> \o CollapseWhitespace(Tail(str))
    ELSE IF Len(str) > 1 /\ str[2] \in Whitespace THEN CollapseWhitespace(Tail(str))
    ELSE <<" ">> \o CollapseWhitespace(Tail(str))

normalizeWhitespace(input) == Trim(CollapseWhitespace(input))

clipText(input, maxChars) ==
    IF Len(input) <= maxChars THEN input
    ELSE SubSeq(input, 1, maxChars - 1) \o <<Ellipsis>>

\* parseArxivId of the tool: the id of an arxiv.org URL whose path is
\* /abs/<id> or /pdf/<id>[.pdf], Undefined for every other URL
toolParseArxivId(url) ==
    IF ~EndsWith(url.hostname, ArxivOrg) THEN Undefined
    ELSE IF AbsMatch(url.pathname) # Undefined THEN AbsMatch(url.pathname)
    ELSE IF PdfMatch(url.pathname) # Undefined THEN PdfMatch(url.pathname)
    ELSE Undefined

\* contentType ?? ""
OrEmpty(value) == IF value.t = "string" THEN value.s ELSE <<>>

classifySourceType(url, contentType) ==
    IF EndsWith(url.hostname, ArxivOrg) THEN <<"a","r","x","i","v">>
    ELSE IF \/ EndsWith(toLowerCase(url.pathname), <<".","p","d","f">>)
            \/ Contains(toLowerCase(OrEmpty(contentType)), <<"a","p","p","l","i","c","a","t","i","o","n","/","p","d","f">>)
    THEN <<"p","d","f">>
    ELSE IF \/ EndsWith(toLowerCase(url.pathname), <<".","h","t","m","l">>)
            \/ EndsWith(toLowerCase(url.pathname), <<".","h","t","m">>)
            \/ Contains(toLowerCase(OrEmpty(contentType)), <<"t","e","x","t","/","h","t","m","l">>)
            \/ Contains(toLowerCase(OrEmpty(contentType)), <<"a","p","p","l","i","c","a","t","i","o","n","/","x","h","t","m","l","+","x","m","l">>)
    THEN <<"h","t","m","l">>
    ELSE <<"o","t","h","e","r">>

\* .replace(/[-_]+/g, " ")
RECURSIVE ReplaceDashes(_)
ReplaceDashes(str) ==
    IF str = <<>> THEN <<>>
    ELSE IF Head(str) \notin {"-", "_"} THEN <<Head(str)>> \o ReplaceDashes(Tail(str))
    ELSE IF Len(str) > 1 /\ str[2] \in {"-", "_"} THEN ReplaceDashes(Tail(str))
    ELSE <<" ">> \o ReplaceDashes(Tail(str))

\* the last segment of the path with its hyphens and underscores made
\* spaces, the host name if the path has no segment
guessTitleFromUrl(url) ==
    IF SelectNonEmpty(Split(url.pathname, "/")) = <<>> THEN url.hostname
    ELSE ReplaceDashes(SelectNonEmpty(Split(url.pathname, "/"))
                           [Len(SelectNonEmpty(Split(url.pathname, "/")))])

WordChars == Range(Lower) \cup Range(Upper) \cup Digits \cup {"_"}

\* /\b(19|20)\d{2}\b/ matches at position i
YearAt(str, i) ==
    /\ i + 3 <= Len(str)
    /\ SubSeq(str, i, i + 1) \in {<<"1","9">>, <<"2","0">>}
    /\ str[i + 2] \in Digits /\ str[i + 3] \in Digits
    /\ (i = 1 \/ str[i - 1] \notin WordChars)
    /\ (i + 3 = Len(str) \/ str[i + 4] \notin WordChars)

DigitValue(ch) == CHOOSE d \in 0..9 : DigitChars[d + 1] = ch

\* parseYear: the first year of the 1900s or 2000s written in the text
parseYear(input) ==
    IF ~Truthy(input) \/ ~\E i \in 1..Len(input.s) : YearAt(input.s, i) THEN JUndefined
    ELSE LET i == CHOOSE k \in 1..Len(input.s) :
                      YearAt(input.s, k) /\ \A j \in 1..(k - 1) : ~YearAt(input.s, j)
         IN  JNum(1000 * DigitValue(input.s[i]) + 100 * DigitValue(input.s[i + 1])
                    + 10 * DigitValue(input.s[i + 2]) + DigitValue(input.s[i + 3]))

\* a || b || c
Or3(a, b, c) == Or(Or(a, b), c)

\* getMissingFields that never lists the full text
getMissingFieldsNoFullText(details) ==
    (IF ~Truthy(details.authors) \/ details.authors.a = <<>> THEN <<"authors">> ELSE <<>>)
        \o (IF ~Truthy(details.year) THEN <<"year">> ELSE <<>>)
        \o (IF ~Truthy(details.abstract) THEN <<"abstract">> ELSE <<>>)

getMissingFields(details) ==
    (IF ~Truthy(details.authors) \/ details.authors.a = <<>> THEN <<"authors">> ELSE <<>>)
        \o (IF ~Truthy(details.year) THEN <<"year">> ELSE <<>>)
        \o (IF ~Truthy(details.abstract) THEN <<"abstract">> ELSE <<>>)
        \o (IF ~Truthy(details.fullText) THEN <<"fullText">> ELSE <<>>)

\* the details object with its missingFields set (lines 236-247, 307-318)
WithMissingFields(details) == [details EXCEPT !.missingFields = getMissingFields(details)]

\* what fetchReadableMirror gives for the answer of its fetch: the clipped
\* text, undefined for an exception, a status that is not ok, an empty text
MirrorText(response) ==
    IF response.kind # "ok" \/ ~response.ok THEN JUndefined
    ELSE IF normalizeWhitespace(response.text) = <<>> THEN JUndefined
    ELSE JStr(clipText(normalizeWhitespace(response.text), MAX_FULL_TEXT_CHARS))

\* a fetchReadableMirror whose catch lets the exception of its fetch through
fetchReadableMirrorRethrows(response) ==
    IF response.kind \in {"aborted", "failed"}
    THEN [threw |-> TRUE, name |-> IF response.kind = "aborted" THEN "AbortError" ELSE "TypeError"]
    ELSE [threw |-> FALSE, value |-> MirrorText(response)]

\* fetchReadableMirror after its fetch settled: it never throws
fetchReadableMirror(response) == [threw |-> FALSE, value |-> MirrorText(response)]

NoDetails ==
    [title |-> <<>>, authors |-> JUndefined, year |-> JUndefined,
     abstract |-> JUndefined, fullText |-> JUndefined, sourceType |-> <<>>,
     canonicalUrl |-> <<>>, missingFields |-> <<>>]

\* an execute() call that has not awaited yet
NewExtraction ==
    [pc |-> "start", thrown |-> "", input |-> <<>>, arxivId |-> Undefined,
     calls |-> <<>>, tripped |-> <<>>, contentType |-> JUndefined,
     mirror |-> "", mirrorFailed |-> FALSE, details |-> NoDetails]

ThrowFrom(e, name) == [e EXCEPT !.pc = "threw", !.thrown = name]

\* execute up to its first await (lines 368-384): the URL is trimmed and
\* parsed, and the URLs parseArxivId knows go to extractArxivSource, all
\* others to extractGenericSource
extractSourceExecute(urlParam) ==
    /\ extraction.pc = "none"
    /\ extraction' =
          IF Trim(urlParam) = <<>> THEN ThrowFrom(NewExtraction, "URL must not be empty.")
          ELSE IF ~ParseUrl(Trim(urlParam)).ok
          THEN ThrowFrom([NewExtraction EXCEPT !.input = Trim(urlParam)], "Invalid URL")
          ELSE IF toolParseArxivId(ParseUrl(Trim(urlParam))) # Undefined
          THEN [NewExtraction EXCEPT !.pc = "recordFetch",
                                     !.input = Trim(urlParam),
                                     !.arxivId = toolParseArxivId(ParseUrl(Trim(urlParam))),
                                     !.calls = <<"record">>]
          ELSE [NewExtraction EXCEPT !.pc = "directFetch",
                                     !.input = Trim(urlParam),
                                     !.calls = <<"direct">>]
    /\ UNCHANGED <<listeners, delivered, search, applied, idleAbortAt, maxTurns,
                   reportsRoot, currentRun, pc, seed, runState, reportMarkdown,
                   error, runResult, dirs, files, agent, emitted, clock,
                   capAborts, userAborted, produced, settled, steps>>

\* a fetch that the signal ended or the network failed rejects
FetchRejection(e, response) ==
    ThrowFrom([e EXCEPT !.tripped = IF response.kind = "aborted"
                                    THEN Append(@, e.calls[Len(e.calls)]) ELSE @],
              IF response.kind = "aborted" THEN "AbortError" ELSE "TypeError")

\* extractArxivSource from the answer of the record API up to its await of
\* fetchReadableMirror (lines 214-234)
AfterRecordFetch(e, response) ==
    IF response.kind # "ok" THEN FetchRejection(e, response)
    ELSE IF ~response.ok THEN ThrowFrom(e, "arXiv extraction failed")
    ELSE IF response.entry.t = "undefined"
    THEN ThrowFrom(e, "No arXiv entry found for that URL.")
    ELSE [e EXCEPT
            !.pc = "mirrorFetch",
            !.mirror = "record",
            !.calls = Append(@, "mirror"),
            !.details =
               [NoDetails EXCEPT
                  !.title = Or(Get(response.entry, "title"),
                               JStr(<<"a","r","X","i","v",":">> \o e.arxivId)).s,
                  !.abstract = Or(JStr(clipText(Or(Get(response.entry, "summary"),
                                                   JStr(<<>>)).s,
                                                MAX_ABSTRACT_CHARS)),
                                  JUndefined),
                  !.year = parseYear(Get(response.entry, "published")),
                  !.authors =
                     IF SelectSeq(Get(response.entry, "authors").a,
                                  LAMBDA author : Len(author) > 0) # <<>>
                     THEN JArr(SelectSeq(Get(response.entry, "authors").a,
                                         LAMBDA author : Len(author) > 0))
                     ELSE JUndefined,
                  !.sourceType = <<"a","r","x","i","v">>,
                  !.canonicalUrl = ArxivAbs \o e.arxivId]]

RecordFetchSettled(response) ==
    /\ extraction.pc = "recordFetch"
    /\ extraction' = AfterRecordFetch(extraction, response)
    /\ UNCHANGED <<listeners, delivered, search, applied, idleAbortAt, maxTurns,
                   reportsRoot, currentRun, pc, seed, runState, reportMarkdown,
                   error, runResult, dirs, files, agent, emitted, clock,
                   capAborts, userAborted, produced, settled, steps>>

\* lines 273-297 for a page that is read: title, authors, year, abstract
\* and text of the page
PageDetails(canonical, page) ==
    [NoDetails EXCEPT
       !.title = Or3(page.title, page.ogTitle, JStr(guessTitleFromUrl(canonical))).s,
       !.authors = IF page.citationAuthors # <<>> THEN JArr(page.citationAuthors)
                   ELSE JUndefined,
       !.year = Or3(parseYear(page.dates[1]), parseYear(page.dates[2]),
                    parseYear(page.dates[3])),
       !.abstract = IF Truthy(Or3(page.abstracts[1], page.abstracts[2], page.abstracts[3]))
                    THEN JStr(clipText(Or3(page.abstracts[1], page.abstracts[2],
                                           page.abstracts[3]).s, MAX_ABSTRACT_CHARS))
                    ELSE Or3(page.abstracts[1], page.abstracts[2], page.abstracts[3]),
       !.fullText = IF Len(page.stripped) > 0
                    THEN JStr(clipText(page.stripped, MAX_FULL_TEXT_CHARS))
                    ELSE JUndefined]

\* lines 299-305: the abstract falls back on the full text; the details are
\* returned if there is a full text, else the mirror is asked
AfterPopulated(e) ==
    LET filled == [e EXCEPT !.details.abstract =
                       IF ~Truthy(@) /\ Truthy(e.details.fullText)
                       THEN JStr(clipText(e.details.fullText.s, MAX_ABSTRACT_CHARS))
                       ELSE @]
    IN  IF ~Truthy(filled.details.fullText)
        THEN [filled EXCEPT !.pc = "mirrorFetch", !.mirror = "fallback",
                            !.calls = Append(@, "mirror")]
        ELSE [filled EXCEPT !.pc = "returned",
                            !.details = WithMissingFields(filled.details)]

\* response.url: the URL asked for, or the one a redirect led to
RedirectTarget == <<"h","t","t","p","s",":","/","/","b",".","o","r","g","/","f","i","l","e","s","/","f","i","n","a","l","_","p","a","p","e","r",".","P","D","F">>
ResponseUrl(input, response) ==
    IF response.redirected THEN RedirectTarget ELSE ParseUrl(input).href

\* extractGenericSource from the answer of its fetch up to its next await
\* or its end (lines 250-305)
AfterDirectFetch(e, response) ==
    IF response.kind # "ok" THEN FetchRejection(e, response)
    ELSE IF ~response.ok THEN ThrowFrom(e, "Source extraction failed")
    ELSE LET canonicalUrl == ResponseUrl(e.input, response)
             canonical == ParseUrl(canonicalUrl)
             sourceType == classifySourceType(canonical, response.contentType)
             classified == [e EXCEPT !.contentType = response.contentType,
                                     !.details.sourceType = sourceType,
                                     !.details.canonicalUrl = canonicalUrl,
                                     !.details.title = guessTitleFromUrl(canonical)]
         IN  IF sourceType \in {<<"h","t","m","l">>, <<"o","t","h","e","r">>}
             THEN AfterPopulated(
                     [classified EXCEPT
                        !.details = [PageDetails(canonical, response.page) EXCEPT
                                        !.sourceType = sourceType,
                                        !.canonicalUrl = canonicalUrl]])
             ELSE IF sourceType = <<"p","d","f">>
             THEN [classified EXCEPT !.pc = "mirrorFetch", !.mirror = "pdf",
                                     !.calls = Append(@, "mirror")]
             ELSE AfterPopulated(classified)

DirectFetchSettled(response) ==
    /\ extraction.pc = "directFetch"
    /\ extraction' = AfterDirectFetch(extraction, response)
    /\ UNCHANGED <<listeners, delivered, search, applied, idleAbortAt, maxTurns,
                   reportsRoot, currentRun, pc, seed, runState, reportMarkdown,
                   error, runResult, dirs, files, agent, emitted, clock,
                   capAborts, userAborted, produced, settled, steps>>

\* the extraction after a fetchReadableMirror call settled: the one of
\* extractArxivSource (line 234) ends it, the one for a pdf (line 296) is
\* followed by lines 299-305, the last one (line 304) ends it
AfterMirrorFetch(e, response) ==
    LET outcome == fetchReadableMirror(response)
        noted == [e EXCEPT !.tripped = IF response.kind = "aborted"
                                       THEN Append(@, "mirror") ELSE @,
                           !.mirrorFailed = ~Truthy(MirrorText(response))]
    IN  IF outcome.threw THEN ThrowFrom(noted, outcome.name)
        ELSE IF e.mirror = "pdf"
        THEN AfterPopulated([noted EXCEPT !.details.fullText = outcome.value])
        ELSE [noted EXCEPT !.pc = "returned",
                           !.details = WithMissingFields(
                                          [noted.details EXCEPT !.fullText = outcome.value])]

\* a signal that has tripped rejects every later fetch it is given to
MirrorFetchSettled(response) ==
    /\ extraction.pc = "mirrorFetch"
    /\ extraction.tripped # <<>> => response.kind = "aborted"
    /\ extraction' = AfterMirrorFetch(extraction, response)
    /\ UNCHANGED <<listeners, delivered, search, applied, idleAbortAt, maxTurns,
                   reportsRoot, currentRun, pc, seed, runState, reportMarkdown,
                   error, runResult, dirs, files, agent, emitted, clock,
                   capAborts, userAborted, produced, settled, steps>>

\* arguments of execute: blank, not a URL, the two forms of a paper of
\* arxiv.org, two other pages of arxiv.org, and pages of another host
UrlParams ==
    {<<" ">>, <<"n","o","t"," ","a"," ","u","r","l">>,
     <<" ","h","t","t","p","s",":","/","/","a","r","x","i","v",".","o","r","g","/","a","b","s","/","1","7","0","6",".","0","3","7","6","2">>, <<"h","t","t","p","s",":","/","/","a","r","x","i","v",".","o","r","g","/","p","d","f","/","1","7","0","6",".","0","3","7","6","2",".","p","d","f">>,
     <<"h","t","t","p","s",":","/","/","a","r","x","i","v",".","o","r","g","/","l","i","s","t","/","c","s",".","A","I","/","r","e","c","e","n","t">>, <<"h","t","t","p","s",":","/","/","a","r","x","i","v",".","o","r","g","/","a",".","p","d","f">>,
     <<"h","t","t","p","s",":","/","/","a",".","o","r","g","/","p",".","p","d","f">>, <<"h","t","t","p","s",":","/","/","a",".","o","r","g","/","p",".","h","t","m","l">>, <<"h","t","t","p","s",":","/","/","a",".","o","r","g","/","m","y","-","p","a","p","e","r">>}

\* a fetch ends with the signal tripped, with a network failure or with a
\* response
Rejections == {[kind |-> "aborted"], [kind |-> "failed"]}

\* the entries of the record API: one with every tag, one with none
EntryFull ==
    JObj([title |-> JStr(<<"A","t","t","e","n","t","i","o","n">>), summary |-> JStr(<<"W","e"," ","p","r","o","p","o","s","e",".">>),
          published |-> JStr(<<"2","0","1","7","-","0","6","-","1","2","T","1","7",":","5","7",":","3","4","Z">>),
          authors |-> JArr(<<<<"A","."," ","V","a","s","w","a","n","i">>, <<>>>>)])
EntryBare == JObj([authors |-> JArr(<<>>)])

RecordResponses ==
    Rejections
      \cup {[kind |-> "ok", ok |-> FALSE, entry |-> JUndefined]}
      \cup {[kind |-> "ok", ok |-> TRUE, entry |-> entry] :
              entry \in {JUndefined, EntryFull, EntryBare}}

\* what the functions that read a page find in it
PageFull ==
    [title |-> JStr(<<"T","i","t","l","e">>), ogTitle |-> JUndefined,
     citationAuthors |-> <<<<"B","."," ","A","u","t","h","o","r">>>>,
     dates |-> <<JUndefined, JStr(<<"x","2","0","1","9"," ","2","0","2","1","-","0","3","-","0","1">>), JUndefined>>,
     abstracts |-> <<JUndefined, JStr(<<"A","b","o","u","t",".">>), JUndefined>>,
     stripped |-> <<"T","i","t","l","e"," ","B","o","d","y"," ","t","e","x","t">>]
PageText ==
    [title |-> JUndefined, ogTitle |-> JUndefined, citationAuthors |-> <<>>,
     dates |-> <<JUndefined, JUndefined, JUndefined>>,
     abstracts |-> <<JUndefined, JUndefined, JUndefined>>,
     stripped |-> <<"B","o","d","y"," ","t","e","x","t">>]
PageEmpty ==
    [title |-> JStr(<<>>), ogTitle |-> JStr(<<"O","g">>), citationAuthors |-> <<>>,
     dates |-> <<JStr(<<"1","8","5","0">>), JUndefined, JUndefined>>,
     abstracts |-> <<JUndefined, JUndefined, JStr(<<>>)>>,
     stripped |-> <<>>]
Pages == {PageFull, PageText, PageEmpty}

ContentTypes ==
    {JNull, JStr(<<"a","p","p","l","i","c","a","t","i","o","n","/","p","d","f">>), JStr(<<"T","e","x","t","/","H","T","M","L",";"," ","c","h","a","r","s","e","t","=","u","t","f","-","8">>), JStr(<<"t","e","x","t","/","p","l","a","i","n">>)}

DirectResponses ==
    Rejections
      \cup {[kind |-> "ok", ok |-> FALSE, redirected |-> FALSE,
             contentType |-> JNull, page |-> PageEmpty]}
      \cup {[kind |-> "ok", ok |-> TRUE, redirected |-> r, contentType |-> ct,
             page |-> page] :
              r \in BOOLEAN, ct \in ContentTypes, page \in Pages}

MirrorResponses ==
    Rejections
      \cup {[kind |-> "ok", ok |-> FALSE, text |-> <<>>]}
      \cup {[kind |-> "ok", ok |-> TRUE, text |-> text] :
              text \in {<<>>, <<" ","\n"," ">>, <<" ","F","u","l","l"," "," ","t","e","x","t","\n">>}}

InitExtract == Init /\ maxTurns = 1 /\ reportsRoot = <<"r","e","p","o","r","t","s">>

NextExtract ==
    \/ \E urlParam \in UrlParams : extractSourceExecute(urlParam)
    \/ \E response \in RecordResponses : RecordFetchSettled(response)
    \/ \E response \in DirectResponses : DirectFetchSettled(response)
    \/ \E response \in MirrorResponses : MirrorFetchSettled(response)

SpecExtract == InitExtract /\ [][NextExtract]_vars

(* ---------------------------------------------------------------------- *)
(* The slugs of seed URLs                                                   *)
(* ---------------------------------------------------------------------- *)

\* hosts of seed URLs: arxiv.org, a mirror of it, and another site
SeedHosts == {<<"a","r","x","i","v",".","o","r","g">>, <<"e","x","p","o","r","t",".","a","r","x","i","v",".","o","r","g">>, <<"e","x","a","m","p","l","e",".","c","o","m">>, <<"E","x","a","m","p","l","e",".","C","O","M">>}

\* identifiers of arXiv papers: new style, with a version, old style (archive
\* and number), and one of 80 characters
LongId == Repeat(<<"0","1","2","3","4","5","6","7","8","9">>, 8)
ArxivIds == {<<"1","7","0","6",".","0","3","7","6","2">>, <<"2","3","0","1",".","0","0","0","0","1","v","2">>, <<"h","e","p","-","t","h","/","9","9","0","1","0","0","1">>, <<"m","a","t","h",".","G","T","/","0","3","0","9","1","3","6">>, LongId}

\* the path of a paper in its three forms
PathOfForm(form, id) ==
    CASE form = "abs" -> AbsPrefix \o id
      [] form = "pdf" -> PdfPrefix \o id
      [] form = "pdf.pdf" -> PdfPrefix \o id \o DotPdf

\* other paths: none, the root, segments, punctuation, a query, and long ones
OtherPaths ==
    {<<>>, <<"/">>, <<"/","a","/","b">>, <<"/","A","_","b","-","-","c","/">>, <<"/","-","-","-">>, <<"/","p","a","p","e","r",".","h","t","m","l","?","q","=","1">>, <<"/","p","#","t","o","p">>,
     <<"/","l","i","s","t","/","c","s",".","A","I","/","r","e","c","e","n","t">>,
     <<"/">> \o Repeat(<<"a">>, 67) \o <<"/","b">>,
     <<"/">> \o Repeat(<<"a">>, 90),
     <<"/">> \o Repeat(<<"a","b","-">>, 30)}

SeedPapers ==
    {[host |-> h, form |-> f, id |-> id, path |-> PathOfForm(f, id)] :
        h \in SeedHosts, f \in {"abs", "pdf", "pdf.pdf"}, id \in ArxivIds}
      \cup {[host |-> h, form |-> "other", id |-> <<>>, path |-> p] :
              h \in SeedHosts, p \in OtherPaths}

\* createPaperSlug(new URL(seedPaperUrl)) (lines 357 and 362)
DeriveSlug(paper) ==
    /\ applied.fn = "none"
    /\ applied' = [fn |-> "createPaperSlug",
                   given |-> paper,
                   input |-> Https \o paper.host \o paper.path,
                   output |-> createPaperSlug(ParseUrl(Https \o paper.host \o paper.path))]
    /\ UNCHANGED <<listeners, delivered, search, extraction, idleAbortAt, maxTurns,
                   reportsRoot, currentRun, pc, seed, runState, reportMarkdown,
                   error, runResult, dirs, files, agent, emitted, clock,
                   capAborts, userAborted, produced, settled, steps>>

InitSlug == Init /\ maxTurns = 1 /\ reportsRoot = <<"r","e","p","o","r","t","s">>

NextSlug == \E paper \in SeedPapers : DeriveSlug(paper)

SpecSlug == InitSlug /\ [][NextSlug]_vars

(* ---------------------------------------------------------------------- *)
(* Reports given to the validator                                           *)
(* ---------------------------------------------------------------------- *)

\* a text of the given length, words of six letters, no white space at its
\* ends
Filler(length) == [i \in 1..length |-> IF i % 7 = 0 /\ i < length THEN " " ELSE "e"]

\* how the text of a section begins: the related work with a comparison and
\* a citation, the references with a URL
Opening(k) ==
    IF REQUIRED_REPORT_HEADINGS[k] = HRelated THEN <<"U","n","l","i","k","e"," ","[","3","]"," ">>
    ELSE IF REQUIRED_REPORT_HEADINGS[k] = HReferences THEN <<"h","t","t","p","s",":","/","/","e","x","a","m","p","l","e",".","c","o","m","/","p"," ">>
    ELSE <<>>

\* the text of a section, of the given length
SectionText(k, length) == Opening(k) \o Filler(length - Len(Opening(k)))

\* the heading line of a section as the report writes it
HeadLine(k, style) ==
    CASE style = "plain" -> REQUIRED_REPORT_HEADINGS[k]
      [] style = "indented" -> <<" "," ">> \o REQUIRED_REPORT_HEADINGS[k]
      [] style = "trailing" -> REQUIRED_REPORT_HEADINGS[k] \o <<" "," ">>
      [] style = "lowercase" -> toLowerCase(REQUIRED_REPORT_HEADINGS[k])

\* what follows the heading line of a section, as blocks: the text of the
\* section first, then the headings written inside it, each with its depth
\* and the text under it
Blocks(k, body) ==
    CASE body = "long" -> <<[depth |-> 0, text |-> SectionText(k, 126)]>>
      [] body = "exact" -> <<[depth |-> 0, text |-> SectionText(k, MinSectionChars)]>>
      [] body = "short" -> <<[depth |-> 0, text |-> SectionText(k, MinSectionChars - 1)]>>
      [] body = "bare" -> <<[depth |-> 0, text |-> Filler(126)]>>
      [] body = "blank" -> <<[depth |-> 0, text |-> [i \in 1..130 |-> " "]]>>
      [] body = "hashtag" ->
            <<[depth |-> 0, text |-> SectionText(k, 60) \o <<"\n","#","t","a","g"," ","#","\n">> \o Filler(60)]>>
      [] body = "crlf" ->
            <<[depth |-> 0, text |-> <<" ","\r","\n">> \o SectionText(k, 60) \o <<"\r","\n">> \o Filler(60)]>>
      [] body = "sub" ->
            <<[depth |-> 0, text |-> SectionText(k, 60)],
              [depth |-> 3, text |-> <<"#","#","#"," ","D","e","t","a","i","l","\n">> \o Filler(60)]>>
      [] body = "sibling" ->
            <<[depth |-> 0, text |-> SectionText(k, 60)],
              [depth |-> 2, text |-> <<"#","#"," ","N","o","t","e","s","\n">> \o Filler(100)]>>
      [] body = "top" ->
            <<[depth |-> 0, text |-> SectionText(k, 60)],
              [depth |-> 1, text |-> <<" ","#"," ","A","p","p","e","n","d","i","x","\n">> \o Filler(100)]>>
      [] body = "twice" ->
            <<[depth |-> 0, text |-> SectionText(k, 30)],
              [depth |-> LeadingHashes(REQUIRED_REPORT_HEADINGS[k]),
               text |-> REQUIRED_REPORT_HEADINGS[k] \o <<"\n">> \o SectionText(k, 126)]>>

BlockTexts(blocks) == [i \in DOMAIN blocks |-> blocks[i].text]

\* the text of a section of a report
SectionLines(section) ==
    HeadLine(section.heading, section.style) \o <<"\n">>
        \o Join(BlockTexts(Blocks(section.heading, section.body)), <<"\n">>) \o <<"\n">>

\* the text of a report
ReportText(report) == Join([i \in DOMAIN report |-> SectionLines(report[i])], <<>>)

\* the sections of a set of headings, in the order of the template
RECURSIVE SectionsOf(_, _)
SectionsOf(present, k) ==
    IF k > Len(REQUIRED_REPORT_HEADINGS) THEN <<>>
    ELSE (IF k \in present
          THEN <<[heading |-> k, style |-> "plain", body |-> "long"]>> ELSE <<>>)
            \o SectionsOf(present, k + 1)

\* how the section of a question may differ from the template
Variants ==
    {<<"plain", "short">>, <<"plain", "exact">>, <<"plain", "sub">>,
     <<"plain", "sibling">>, <<"plain", "top">>, <<"plain", "blank">>,
     <<"plain", "hashtag">>, <<"plain", "twice">>, <<"plain", "crlf">>,
     <<"indented", "long">>, <<"trailing", "long">>, <<"lowercase", "long">>}

AllHeadings == DOMAIN REQUIRED_REPORT_HEADINGS
QuestionHeadings ==
    {k \in AllHeadings :
        \E q \in DOMAIN REQUIRED_QUESTION_HEADINGS :
            REQUIRED_QUESTION_HEADINGS[q] = REQUIRED_REPORT_HEADINGS[k]}

\* the reports: the template with any of its sections left out, with one
\* question section changed, or with a related work or references section
\* that cites nothing
Reports ==
    {SectionsOf(present, 1) : present \in SUBSET AllHeadings}
      \cup {[SectionsOf(AllHeadings, 1) EXCEPT ![k].style = v[1], ![k].body = v[2]] :
              k \in QuestionHeadings, v \in Variants}
      \cup {[SectionsOf(AllHeadings, 1) EXCEPT ![k].body = "bare"] :
              k \in AllHeadings \ QuestionHeadings}
      \cup {[SectionsOf(AllHeadings, 1) EXCEPT ![4].body = "bare"]}

\* validateReport(markdown) on the text of a report (line 427)
Validate(report) ==
    /\ applied.fn = "none"
    /\ applied' = [fn |-> "validateReport",
                   given |-> report,
                   output |-> validateReport(ReportText(report))]
    /\ UNCHANGED <<listeners, delivered, search, extraction, idleAbortAt, maxTurns,
                   reportsRoot, currentRun, pc, seed, runState, reportMarkdown,
                   error, runResult, dirs, files, agent, emitted, clock,
                   capAborts, userAborted, produced, settled, steps>>

InitValidator == Init /\ maxTurns = 1 /\ reportsRoot = <<"r","e","p","o","r","t","s">>

NextValidator == \E report \in Reports : Validate(report)

SpecValidator == InitValidator /\ [][NextValidator]_vars

(* ---------------------------------------------------------------------- *)
(* One run that receives the events of every tool                           *)
(* ---------------------------------------------------------------------- *)

\* details as web_search and extract_source give them
FoundDetails ==
    JObj([details |-> JObj([query |-> JStr(<<"q">>), results |-> JArr(<<GoodEntry>>)])])
ExtractedDetails ==
    JObj([details |-> JObj([title |-> JStr(<<"X">>), canonicalUrl |-> JStr(SiteQuote),
                            sourceType |-> JStr(<<"h","t","m","l">>)])])

\* the events of the read and write tools, with the result these tools give
\* and with results shaped like those of the two harvesting tools
OtherToolEvents ==
    {ToolEnd(name, payload) :
        name \in {"read", "write"},
        payload \in {JObj([content |-> JArr(<<>>)]), FoundDetails, ExtractedDetails}}

\* events of the other types, among them the start and the update of a
\* web_search call
OtherTypeEvents ==
    {[type |-> "message_end"],
     [type |-> "agent_end"],
     [type |-> "tool_execution_start", toolName |-> "web_search", args |-> FoundDetails],
     [type |-> "tool_execution_update", toolName |-> "web_search",
      partialResult |-> FoundDetails]}

HarvestEvents ==
    {ToolEnd("web_search", FoundDetails), ToolEnd("extract_source", ExtractedDetails)}

ToolEvents ==
    OtherToolEvents \cup OtherTypeEvents \cup HarvestEvents \cup {[type |-> "turn_end"]}

InitTools == Init /\ maxTurns = 2 /\ reportsRoot = <<"r","e","p","o","r","t","s">>

NextTools ==
    \/ Entered = 0 /\ run(SeedArxiv)
    \/ MkdirResolved(1)
    \/ PromptResolved(1)
    \/ subscribe(1)
    \/ \E event \in ToolEvents :
          /\ \A l \in Listeners : Len(delivered[l]) < MaxDelivered
          /\ EngineEvent(event)

SpecTools == InitTools /\ [][NextTools]_vars


(* ---------------------------------------------------------------------- *)
(* A search whose signal trips                                              *)
(* ---------------------------------------------------------------------- *)

\* what fetch gives when its signal is aborted: it rejects with an AbortError
Aborted == [kind |-> "threw", message |-> <<"T","h","i","s"," ","o","p","e","r","a","t","i","o","n"," ","w","a","s"," ","a","b","o","r","t","e","d">>]

\* the signal may trip while a provider's request is in flight; the fetch of
\* the second provider (line 113) is given the same signal, so that it
\* rejects as well once the signal has tripped during the first
NextCancel ==
    \/ \E queryParam \in Queries : \E limitParam \in LimitParams :
          execute(queryParam, limitParam)
    \/ \E response \in PrimaryResponses \cup {Aborted} : SemanticScholarSettled(response)
    \/ \E response \in SecondaryResponses \cup {Aborted} :
          /\ search.pc = "arxiv"
          /\ search.primary = Aborted => response = Aborted
          /\ ArxivSettled(response)

SpecCancel == InitSearch /\ [][NextCancel]_vars


(* ---------------------------------------------------------------------- *)
(* The read and write tools                                                 *)
(* ---------------------------------------------------------------------- *)

MaxSegments == 3

\* path.dirname of a resolved path
Dirname(absolutePath) ==
    LET segs == NormalizeSegments(Split(absolutePath, Sep), <<>>)
    IN  IF Len(segs) <= 1 THEN <<Sep>>
        ELSE <<Sep>> \o Join(SubSeq(segs, 1, Len(segs) - 1), <<Sep>>)

\* values of params.path: relative and absolute, with "." and ".." segments,
\* the name of the root and a name of which the root's name is a prefix
PathSegments == {<<".">>, <<".", ".">>, <<"a">>, <<"w">>, <<"w", "2">>}
PathInputs ==
    {Join(segs, <<Sep>>) : segs \in SeqsUpTo(PathSegments, MaxSegments)}
        \cup {<<Sep>> \o Join(segs, <<Sep>>) : segs \in SeqsUpTo(PathSegments, MaxSegments)}

\* the read tool (execute, lines 83-85): the path is resolved, then read
readExecute(pathParam) ==
    /\ applied.fn = "none"
    /\ applied' =
          [fn |-> "read",
           given |-> pathParam,
           output |-> resolvePathWithinRoot(pathParam, WorkingDirectory),
           touched |-> IF resolvePathWithinRoot(pathParam, WorkingDirectory) = Undefined
                       THEN <<>>
                       ELSE <<[op |-> "readFile",
                               path |-> resolvePathWithinRoot(pathParam, WorkingDirectory)]>>]
    /\ UNCHANGED <<listeners, delivered, search, extraction, idleAbortAt, maxTurns,
                   reportsRoot, currentRun, pc, seed, runState, reportMarkdown,
                   error, runResult, dirs, files, agent, emitted, clock,
                   capAborts, userAborted, produced, settled, steps>>

\* the write tool (execute, lines 26-29): the path is resolved, its parent
\* directory is made, then the file is written unless mkdir rejected
writeExecute(pathParam, mkdirRejects) ==
    /\ applied.fn = "none"
    /\ applied' =
          [fn |-> "write",
           given |-> pathParam,
           output |-> resolvePathWithinRoot(pathParam, WorkingDirectory),
           touched |->
               IF resolvePathWithinRoot(pathParam, WorkingDirectory) = Undefined
               THEN <<>>
               ELSE <<[op |-> "mkdir",
                       path |-> Dirname(resolvePathWithinRoot(pathParam, WorkingDirectory))]>>
                    \o IF mkdirRejects THEN <<>>
                       ELSE <<[op |-> "writeFile",
                               path |-> resolvePathWithinRoot(pathParam,
                                                              WorkingDirectory)]>>]
    /\ UNCHANGED <<listeners, delivered, search, extraction, idleAbortAt, maxTurns,
                   reportsRoot, currentRun, pc, seed, runState, reportMarkdown,
                   error, runResult, dirs, files, agent, emitted, clock,
                   capAborts, userAborted, produced, settled, steps>>

InitPaths == Init /\ maxTurns = 1 /\ reportsRoot = <<"r","e","p","o","r","t","s">>

NextPaths ==
    \/ \E pathParam \in PathInputs : readExecute(pathParam)
    \/ \E pathParam \in PathInputs : \E mkdirRejects \in BOOLEAN :
          writeExecute(pathParam, mkdirRejects)

SpecPaths == InitPaths /\ [][NextPaths]_vars


(* ---------------------------------------------------------------------- *)
(* The run lifecycle: claims C1 to C10                                      *)
(* ---------------------------------------------------------------------- *)

\* where a run() call that passed its checks is suspended
Active == {"mkdir", "prompt", "read", "writeHtml", "writeSources"}

\* how a run() call ends
Ended == {"threw", "returned"}

\* C1 (as claimed): at most one run is active per instance: no two run()
\* calls are at the same time between their entry and their return or throw.
C1_OneActiveRun ==
    \A c1, c2 \in Calls : (pc[c1] \in Active /\ pc[c2] \in Active) => c1 = c2

\* C2 (as claimed): at the step at which an accepted run() returns or throws,
\* the controller holds no RunState, so that a run() issued next is accepted.
C2_ClearedAtEnd ==
    [][\A c \in Calls : (pc[c] \in Active /\ pc'[c] \in Ended) => currentRun' = 0]_vars

\* C3: within one run the controller calls agent.abort() for the turn cap
\* exactly once, at the turn_end that makes turnCount reach maxTurns: never
\* before turnCount reaches maxTurns and never again on a later turn_end.
C3_CapAbortOnce ==
    \A c \in Calls :
        capAborts[c] = IF runState[c].turnCount >= maxTurns THEN 1 ELSE 0

\* a fourth turn_end after the cap of three, and the like: one abort still
C3_Witness ==
    \E c \in Calls : runState[c].turnCount > maxTurns /\ capAborts[c] = 1

\* C4 (as claimed): every run that hit the turn cap ends with the turn-cap
\* error carrying maxTurns, whether agent.prompt() resolved or rejected.
C4_CapErrorAlways ==
    \A c \in Calls :
        (runState[c].maxTurnsExceeded /\ pc[c] \in Ended)
            => error[c] = [kind |-> "max_turns", cap |-> maxTurns]

\* C5: a run that hit the turn cap does no finalization step: it writes
\* neither the rendered document nor the sidecar, emits no report_finalized
\* and returns no result, also when a report file is at the report path.
C5_NoArtifactsAfterCap ==
    \A c \in Calls :
        runState[c].maxTurnsExceeded
            => /\ pc[c] \in {"prompt", "threw"}
               /\ steps[c] = <<>>
               /\ emitted[c] = <<>>
               /\ runResult[c] = NoResult

\* the cap was hit, run() threw the turn-cap error, and a report file exists
C5_Witness ==
    \E c \in Calls :
        /\ runState[c].maxTurnsExceeded
        /\ pc[c] = "threw" /\ error[c].kind = "max_turns"
        /\ readFile(ReportPath(seed[c])) # 0

\* C6 (as claimed): a run whose prompt resolved below the turn cap and whose
\* engine did not write the report file during the run throws the
\* artifact-missing error naming the report path, does no finalization step
\* and emits nothing, also when an earlier run left a report at that path.
C6_MissingWhenNotProduced ==
    \A c \in Calls :
        (/\ settled[c] = "resolved" /\ pc[c] # "read"
         /\ ~runState[c].maxTurnsExceeded /\ ~produced[c])
            => /\ pc[c] = "threw"
               /\ error[c] = [kind |-> "missing",
                              path |-> toPromptPath(ReportPath(seed[c]))]
               /\ steps[c] = <<>>
               /\ emitted[c] = <<>>

\* C7 (as claimed): a run during whose prompt abort() was called returns no
\* RunResult and emits no report_finalized.
C7_AbortedNeverReturns ==
    \A c \in Calls : userAborted[c] => (runResult[c] = NoResult /\ emitted[c] = <<>>)

C9_FinalizationOrder ==
    \A c \in Calls :
        /\ pc[c] = "returned"
              => /\ steps[c] = <<"read", "writeHtml", "writeSources",
                                 "validate", "emit", "return">>
                 /\ Len(emitted[c]) = 1
                 /\ emitted[c][1].reportPath = runResult[c].reportPath
                 /\ emitted[c][1].reportHtmlPath = runResult[c].reportHtmlPath
                 /\ emitted[c][1].sourcesPath = runResult[c].sourcesPath
                 /\ emitted[c][1].validation = runResult[c].validation
        /\ emitted[c] # <<>>
              => /\ ReportHtmlPath(seed[c]) \in DOMAIN files
                 /\ files[ReportHtmlPath(seed[c])].kind = "html"
                 /\ SourcesPath(seed[c]) \in DOMAIN files
                 /\ files[SourcesPath(seed[c])].kind = "json"

\* run() returned a complete report with a source found by a search
C9_Witness ==
    \E c \in Calls :
        /\ pc[c] = "returned" /\ runResult[c].validation.isComplete
        /\ Len(files[SourcesPath(seed[c])].sources) = 2

\* the argument is empty once trimmed, is no URL, or gives a report directory
\* outside the working root
BadSeed(seedPaperUrl) ==
    \/ Len(Trim(seedPaperUrl)) = 0
    \/ ~ParseUrl(Trim(seedPaperUrl)).ok
    \/ resolvePathWithinRoot(
           PathJoin(reportsRoot, createPaperSlug(ParseUrl(Trim(seedPaperUrl)))),
           WorkingDirectory) = Undefined

\* C10: a run() call whose seed is empty once trimmed, is no URL, or whose
\* report directory is outside the working root throws at once and changes
\* nothing: no directory, no file, no RunState, nothing given to the engine,
\* nothing emitted; this.currentRun is as before, so a valid run() that was
\* acceptable before is acceptable after.
C10_RejectedBeforeIO ==
    [][\A c \in Calls :
          (pc[c] = "idle" /\ pc'[c] # "idle" /\ BadSeed(seed'[c]))
              => /\ pc'[c] = "threw"
                 /\ error'[c].kind \in {"in_progress", "empty", "invalid", "outside"}
                 /\ UNCHANGED <<dirs, files, runState, currentRun, agent, emitted>>]_vars

\* a call was rejected for its seed and the next call was accepted
C10_Witness ==
    \E c1, c2 \in Calls :
        /\ c1 < c2
        /\ pc[c1] = "threw" /\ error[c1].kind \in {"empty", "invalid"}
        /\ pc[c2] \in Active \cup {"returned"}

(* ---------------------------------------------------------------------- *)
(* Cancellation outside a run: claim C11                                    *)
(* ---------------------------------------------------------------------- *)

\* C11: abort() called while no run() call is in progress (before the first
\* run or after one ended) is a no-op: the step changes nothing of the
\* controller, the engine or the file system, so a run started afterwards
\* begins from the same state as if abort() had not been called and is
\* neither cancelled nor failed by it.
C11_IdleAbortNoOp ==
    [][(NoCallInProgress /\ abort)
          => UNCHANGED <<maxTurns, reportsRoot, currentRun, pc, seed, runState,
                         reportMarkdown, error, runResult, dirs, files, agent,
                         emitted, clock, capAborts, userAborted, produced,
                         settled, steps, aside>>]_vars

\* abort() was called with no run in progress, and a run() call made after
\* it returned its result without having been cancelled
C11_Witness ==
    /\ idleAbortAt >= 0
    /\ \E c \in Calls : /\ c > idleAbortAt
                         /\ pc[c] = "returned"
                         /\ ~userAborted[c]

(* ---------------------------------------------------------------------- *)
(* The source table: claims C12 to C14                                      *)
(* ---------------------------------------------------------------------- *)

\* C12: within a run no step removes an entry of the source table, changes
\* the addedAt of an entry, or changes a title, snippet or provenance tag
\* that is non-empty; an observation only fills the fields still empty.
C12_TableMonotone ==
    [][\A c \in Calls : \A u \in DOMAIN runState[c].sources :
          /\ u \in DOMAIN runState'[c].sources
          /\ runState'[c].sources[u].addedAt = runState[c].sources[u].addedAt
          /\ Truthy(runState[c].sources[u].title)
                => runState'[c].sources[u].title = runState[c].sources[u].title
          /\ Truthy(runState[c].sources[u].snippet)
                => runState'[c].sources[u].snippet = runState[c].sources[u].snippet
          /\ Truthy(runState[c].sources[u].source)
                => runState'[c].sources[u].source = runState[c].sources[u].source]_vars

\* the seed's entry, made without a snippet, got its snippet from a later
\* extraction of the seed and kept its title, tag and time
C12_Witness ==
    \E c \in Calls :
        /\ SeedKey \in DOMAIN runState[c].sources
        /\ runState[c].sources[SeedKey].snippet = JStr(<<"a">>)
        /\ runState[c].sources[SeedKey].title = JStr(SeedPaper)
        /\ runState[c].sources[SeedKey].source = JStr(SeedTag)
        /\ runState[c].sources[SeedKey].addedAt < clock

\* C13: from every table a run reaches, adding the same observation twice
\* (the second time later) gives exactly the table of adding it once, and an
\* observation of a URL whose entry has a non-empty title leaves that title.
C13_MergeIdempotent ==
    \A c \in Calls : \A o \in Observations :
        LET sources == runState[c].sources
            once == addSource(sources, o, clock)
        IN  /\ addSource(once, o, clock + 1) = once
            /\ (o.url \in DOMAIN sources /\ Truthy(sources[o.url].title))
                  => once[o.url].title = sources[o.url].title

\* a table holds an entry with a non-empty title, made earlier, for a URL
\* of which an observation with another title exists
C13_Witness ==
    \E c \in Calls : \E o \in Observations :
        /\ o.url \in DOMAIN runState[c].sources
        /\ Truthy(runState[c].sources[o.url].title)
        /\ Truthy(o.title)
        /\ o.title # runState[c].sources[o.url].title
        /\ runState[c].sources[o.url].addedAt < clock
        /\ Truthy(runState[c].sources[o.url].snippet)

\* new URL(u).toString() where u parses, u itself where it does not
NormalizedUrl(u) == IF ParseUrl(u).ok THEN UrlToString(ParseUrl(u)) ELSE u

\* C14 (as claimed): the source table of a run holds at most one entry per
\* normalized URL: no two of its keys normalize to the same URL.
C14_OnePerNormalizedUrl ==
    \A c \in Calls : \A u, v \in DOMAIN runState[c].sources :
        NormalizedUrl(u) = NormalizedUrl(v) => u = v

(* ---------------------------------------------------------------------- *)
(* Events and subscribers: claims C15 and C16                               *)
(* ---------------------------------------------------------------------- *)

\* C15 (as claimed): a tool result of web_search or extract_source that
\* does not have the expected shape leaves the state of the run, its source
\* table included, as it was, and the handler goes on to emit the event:
\* the first subscriber is called with it.
C15_MalformedIgnored ==
    [][\A event \in MalformedEvents :
          EngineEvent(event)
             => /\ runState' = runState
                /\ currentRun' = currentRun
                /\ listeners # <<>>
                      => delivered'[Head(listeners)]
                            = Append(delivered[Head(listeners)], event)]_vars

\* C16 (as claimed): an event the controller receives from the engine is
\* delivered, unmodified and once, to every listener subscribed at that
\* time, whatever the other listeners do, and to no other listener.
C16_DeliveredToAll ==
    [][\A event \in ListenerEvents :
          EngineEvent(event)
             => \A l \in Listeners :
                   delivered'[l] = IF l \in Range(listeners)
                                   THEN Append(delivered[l], event)
                                   ELSE delivered[l]]_vars

(* ---------------------------------------------------------------------- *)
(* The sidecar: claim C17                                                   *)
(* ---------------------------------------------------------------------- *)

\* C17: when a run has returned, the URLs read back from the text of its
\* sources sidecar are in ascending order, and they are exactly the URLs of
\* the run's source table: every source harvested, the seed included, and
\* no other.
C17_SidecarRoundTrip ==
    \A c \in Calls :
        pc[c] = "returned"
           => \A urls \in {SidecarUrls(SidecarText(files[SourcesPath(seed[c])]))} :
                 /\ \A i, j \in DOMAIN urls : i < j => LocaleLess(urls[i], urls[j])
                 /\ Range(urls) = DOMAIN runState[c].sources

\* a run returned with three sources in its table, one of them with a URL
\* and a title that have to be escaped in the text
C17_Witness ==
    \E c \in Calls :
        /\ pc[c] = "returned"
        /\ Cardinality(DOMAIN runState[c].sources) = 3
        /\ SiteQuote \in DOMAIN runState[c].sources
        /\ runState[c].sources[SiteQuote].title = JStr(<<"\"">>)

(* ---------------------------------------------------------------------- *)
(* The search aggregator: claims C18 to C20 and C28                         *)
(* ---------------------------------------------------------------------- *)

SearchEnded == search.pc \in {"threw", "returned"}

\* a provider that was asked and gave at least one usable result
GaveResults(response) == response.kind = "ok" /\ response.results # <<>>

\* C18: a search fails exactly when its aggregated list is empty, that is
\* when every provider that was asked threw or gave no usable result; it
\* succeeds as soon as one provider gave a usable result, even if the other
\* threw.
C18_FailsIffEmpty ==
    SearchEnded
       => (search.pc = "threw"
              <=> (~GaveResults(search.primary) /\ ~GaveResults(search.secondary)))

\* the first provider threw, the second gave results, the search returned
C18_Witness ==
    /\ search.pc = "returned"
    /\ search.primary.kind = "threw"
    /\ GaveResults(search.secondary)

\* the labelled error strings of the providers that threw, in query order
ExpectedErrors ==
    (IF search.primary.kind = "threw"
     THEN <<SemanticScholarTag \o <<":", " ">> \o search.primary.message>> ELSE <<>>)
       \o (IF search.secondary.kind = "threw"
           THEN <<ArxivTag \o <<":", " ">> \o search.secondary.message>> ELSE <<>>)

\* what C19 says of providerErrors, and that the second provider is asked
\* after the first threw
ErrorsRecorded ==
    /\ search.pc = "returned"
          => search.details.providerErrors
                = IF ExpectedErrors = <<>> THEN JUndefined ELSE JArr(ExpectedErrors)
    /\ (SearchEnded /\ search.primary.kind = "threw")
          => search.secondary.kind # "none"

DistinctUrls(results) ==
    \A i, j \in DOMAIN results : results[i].url = results[j].url => i = j

\* C19 (as claimed): a successful search records one labelled string per
\* provider that threw, in query order, and no providerErrors when none
\* threw; when the first provider threw and the second returned k >= 1
\* results, the aggregate holds exactly those k results.
C19_SecondaryResultsKept ==
    /\ ErrorsRecorded
    /\ (search.pc = "returned" /\ search.primary.kind = "threw"
            /\ GaveResults(search.secondary))
          => search.details.results = search.secondary.results

\* C19 (amended): as above, the aggregate holding exactly the k results of
\* the second provider when their URLs are pairwise distinct; of results
\* that share a URL the aggregate holds the first one only.
C19_DistinctSecondaryResultsKept ==
    /\ ErrorsRecorded
    /\ (search.pc = "returned" /\ search.primary.kind = "threw"
            /\ GaveResults(search.secondary))
          => /\ DistinctUrls(search.secondary.results)
                   => search.details.results = search.secondary.results
             /\ search.details.results = dedupeResults(search.secondary.results)

\* the first provider threw, the second returned two results with distinct
\* URLs, and the search returned them with one error recorded
C19_Witness ==
    /\ search.pc = "returned"
    /\ search.primary.kind = "threw"
    /\ search.secondary.kind = "ok"
    /\ Len(search.secondary.results) = 2
    /\ DistinctUrls(search.secondary.results)
    /\ search.details.providerErrors.t = "array"
    /\ Len(search.details.providerErrors.a) = 1

\* C20 (as claimed): a successful search returns between 1 and limit
\* results, no two with the same URL, whichever providers contributed.
C20_NoDuplicateUrls ==
    search.pc = "returned"
       => /\ Len(search.details.results) \in 1..search.limit
          /\ DistinctUrls(search.details.results)

\* what the first provider yielded: nothing if it threw
PrimaryYield == IF search.primary.kind = "ok" THEN search.primary.results ELSE <<>>

UrlsOf(results) == {results[i].url : i \in DOMAIN results}

\* C28: the second provider is asked if and only if the first yielded fewer
\* than limit results, by returning fewer or by throwing; in the list of a
\* search no result of the second provider comes before one of the first;
\* and the merged list is cut to limit after the duplicates were removed: it
\* holds limit results whenever the two providers gave that many distinct
\* URLs.
C28_SecondaryIffShort ==
    /\ (SearchEnded /\ search.primary.kind # "none")
          => (search.secondary.kind # "none" <=> Len(PrimaryYield) < search.limit)
    /\ search.pc = "returned"
          => \A i, j \in DOMAIN search.details.results :
                (/\ search.details.results[i].source = ArxivTag
                 /\ search.details.results[j].source = SemanticScholarTag) => j < i
    /\ (search.pc = "returned" /\ search.secondary.kind = "ok")
          => \E merged \in {UrlsOf(PrimaryYield \o search.secondary.results)} :
                Len(search.details.results)
                   = IF Cardinality(merged) < search.limit
                     THEN Cardinality(merged) ELSE search.limit

\* both providers contributed, and the merged list was cut: the first gave
\* one result of a limit of two, the second two more with other URLs
C28_Witness ==
    /\ search.pc = "returned"
    /\ search.limit = 2
    /\ Len(PrimaryYield) = 1
    /\ search.secondary.kind = "ok"
    /\ Cardinality(UrlsOf(PrimaryYield \o search.secondary.results)) = 3
    /\ search.details.results[1].source = SemanticScholarTag
    /\ search.details.results[2].source = ArxivTag

(* ---------------------------------------------------------------------- *)
(* The extraction tool: claims C21 to C24 and C29                           *)
(* ---------------------------------------------------------------------- *)

\* the extraction has a URL and its host is the one of arxiv.org
OnArxivHost ==
    /\ extraction.pc \notin {"none", "start"}
    /\ ParseUrl(extraction.input).ok
    /\ EndsWith(ParseUrl(extraction.input).hostname, ArxivOrg)

ExtractionEnded == extraction.pc \in {"returned", "threw"}

\* C21 (as claimed): every URL of the host arxiv.org is extracted through the
\* record API, whatever its path: it is never fetched directly, no content
\* type is read for it, and its source type is "arxiv".  The code sends an
\* arxiv.org URL whose path is neither /abs/<id> nor /pdf/<id>[.pdf] to
\* extractGenericSource, which fetches it directly.
C21_ArxivHostThroughRecordApi ==
    OnArxivHost =>
        /\ extraction.calls[1] = "record"
        /\ extraction.contentType = JUndefined
        /\ extraction.pc = "returned" => extraction.details.sourceType = <<"a","r","x","i","v">>

\* C22 (as claimed): an extraction whose signal tripped during one of its
\* remote calls ends with the cancellation error, never with a result.  The
\* catch of fetchReadableMirror takes the cancellation of the mirror fetch
\* for a missing full text, and the extraction returns.
C22_CancelledNeverReturns ==
    (ExtractionEnded /\ extraction.tripped # <<>>) =>
        extraction.pc = "threw" /\ extraction.thrown = "AbortError"

IsEmptyField(details, field) ==
    CASE field = "authors" -> details.authors.t = "undefined" \/ details.authors.a = <<>>
      [] field = "year" -> details.year.t = "undefined"
      [] field = "abstract" -> details.abstract.t = "undefined" \/ details.abstract.s = <<>>
      [] field = "fullText" -> details.fullText.t = "undefined" \/ details.fullText.s = <<>>

\* C24: the missingFields of every returned record are exactly its empty
\* fields among authors, year, abstract and fullText, each listed once; and
\* an extraction that has read its record or its page does not throw for a
\* field it did not find.
C24_MissingFieldsExact ==
    /\ extraction.pc = "returned" =>
          /\ \A field \in {"authors", "year", "abstract", "fullText"} :
                field \in Range(extraction.details.missingFields)
                   <=> IsEmptyField(extraction.details, field)
          /\ Range(extraction.details.missingFields)
                \subseteq {"authors", "year", "abstract", "fullText"}
          /\ Len(extraction.details.missingFields)
                = Cardinality(Range(extraction.details.missingFields))
    /\ extraction.pc = "threw" => extraction.details.sourceType = <<>>

\* a page with a text only: authors and year are missing, the abstract was
\* taken from the text
C24_Witness ==
    /\ extraction.pc = "returned"
    /\ extraction.details.missingFields = <<"authors", "year">>
    /\ extraction.details.abstract = extraction.details.fullText

\* C29 (as claimed): for a URL of another host than arxiv.org, a content type
\* that names pdf or html decides the source type; the extension of the
\* path is looked at only when the content type does not decide.  The code
\* looks at the extension first: a path ending in .pdf served as text/html
\* is classified pdf.
C29_ContentTypeDecides ==
    (/\ extraction.pc = "returned"
     /\ extraction.calls[1] = "direct"
     /\ ~EndsWith(ParseUrl(extraction.details.canonicalUrl).hostname, ArxivOrg)) =>
        /\ Contains(toLowerCase(OrEmpty(extraction.contentType)), <<"a","p","p","l","i","c","a","t","i","o","n","/","p","d","f">>)
              => extraction.details.sourceType = <<"p","d","f">>
        /\ (\/ Contains(toLowerCase(OrEmpty(extraction.contentType)), <<"t","e","x","t","/","h","t","m","l">>)
            \/ Contains(toLowerCase(OrEmpty(extraction.contentType)),
                        <<"a","p","p","l","i","c","a","t","i","o","n","/","x","h","t","m","l","+","x","m","l">>))
              => extraction.details.sourceType = <<"h","t","m","l">>

(* ---------------------------------------------------------------------- *)
(* Slugs: claims C26 and C27                                                *)
(* ---------------------------------------------------------------------- *)

SlugDerived == applied.fn = "createPaperSlug"

\* C26 (as claimed): for a seed URL of the host arxiv.org whose path is
\* /abs/<id> or /pdf/<id>[.pdf], the slug is "arxiv-" followed by the id with
\* its runs of other characters made hyphens, so the three forms of one id
\* give one slug.  The code takes the id up to its first slash in the /abs/
\* form and knows no id with a slash in the /pdf/ form: the old-style
\* identifiers (archive/number) get the slug of their archive, or a slug made
\* of host and path.
C26_ArxivSlugOfId ==
    (SlugDerived /\ applied.given.form # "other"
        /\ EndsWith(toLowerCase(applied.given.host), ArxivOrg))
       => applied.output = ArxivDash \o sanitizeSlug(applied.given.id)

\* C27 (as claimed): the slug of a seed URL is not empty, has at most 80
\* characters, all of them lower-case letters, digits or hyphens, no two
\* hyphens in a row, none at its start or end.  The code cuts the slug of
\* host and path to 80 characters after it stripped the hyphens, which may
\* leave a hyphen at the end, and does not cut the slug of an arXiv id.
C27_SlugShape ==
    SlugDerived =>
        /\ applied.output # <<>>
        /\ Len(applied.output) <= SlugCap
        /\ \A i \in DOMAIN applied.output :
              IsSlugChar(applied.output[i]) \/ applied.output[i] = "-"
        /\ \A i \in 1..(Len(applied.output) - 1) :
              ~(applied.output[i] = "-" /\ applied.output[i + 1] = "-")
        /\ applied.output[1] # "-"
        /\ applied.output[Len(applied.output)] # "-"

(* ---------------------------------------------------------------------- *)
(* The validator: claims C25 and C30                                        *)
(* ---------------------------------------------------------------------- *)

Validated == applied.fn = "validateReport"

\* the required headings no line of the report consists of: a heading
\* written with white space before it or in other letters is not on a line
\* of the report
HeadingsNotWritten(report) ==
    SelectSeq(REQUIRED_REPORT_HEADINGS,
              LAMBDA h : ~\E i \in DOMAIN report :
                            /\ REQUIRED_REPORT_HEADINGS[report[i].heading] = h
                            /\ report[i].style \in {"plain", "trailing"})

\* C25: isComplete is the conjunction of the four checks,
\* hasAllRequiredHeadings holds exactly when missingHeadings is empty, and
\* missingHeadings lists the required headings that no line of the text
\* matches, in the order of the template.
C25_CompletenessIsConjunction ==
    Validated =>
        /\ applied.output.isComplete
              <=> (/\ applied.output.hasAllRequiredHeadings
                   /\ applied.output.answeredRequiredQuestions
                   /\ applied.output.hasRelatedWorkComparison
                   /\ applied.output.hasReferenceUrls)
        /\ applied.output.hasAllRequiredHeadings
              <=> applied.output.missingHeadings = <<>>
        /\ applied.output.missingHeadings = HeadingsNotWritten(applied.given)

\* a report that lacks only the References heading: it is the one heading
\* listed, and the report is not complete
C25_Witness ==
    /\ Validated
    /\ applied.output.missingHeadings = <<HReferences>>
    /\ applied.output.answeredRequiredQuestions
    /\ applied.output.hasRelatedWorkComparison
    /\ ~applied.output.isComplete

\* the body of a question in a report: the text after its first heading line
\* (white space around the heading aside) up to the first heading of its
\* depth or a shallower one, trimmed; empty if the heading is not written
WrittenBody(report, heading) ==
    LET written == {i \in DOMAIN report :
                       /\ REQUIRED_REPORT_HEADINGS[report[i].heading] = heading
                       /\ report[i].style # "lowercase"}
        blocks == Blocks(report[CHOOSE i \in written : TRUE].heading,
                         report[CHOOSE i \in written : TRUE].body)
        ends == {b \in DOMAIN blocks :
                    blocks[b].depth \in 1..LeadingHashes(heading)}
        last == IF ends = {} THEN Len(blocks)
                ELSE (CHOOSE b \in ends : \A e \in ends : b <= e) - 1
    IN  IF written = {} THEN <<>>
        ELSE Trim(Join(BlockTexts(SubSeq(blocks, 1, last)), <<"\n">>))

TurnCounted ==
    \E c \in Calls : runState'[c].turnCount # runState[c].turnCount

\* C31 (as claimed): every turn_end received while a run awaits its prompt
\* adds one to the turnCount of that run; the cap flag of a run is set
\* exactly when its turnCount >= maxTurns and is never reset; the turnCount
\* of a RunResult is below maxTurns.
C31_TurnsCountedPerRun ==
    [][\A c \in Calls :
          /\ (TurnCounted /\ pc[c] = "prompt")
                => runState'[c].turnCount = runState[c].turnCount + 1
          /\ runState'[c].maxTurnsExceeded <=> runState'[c].turnCount >= maxTurns
          /\ (runState[c].maxTurnsExceeded /\ pc[c] # "mkdir")
                => runState'[c].maxTurnsExceeded
          /\ runResult'[c] # NoResult => runResult'[c].turnCount < maxTurns]_vars

\* the entry made for the seed at lines 377-381
IsSeedEntry(entry, c) ==
    /\ entry.url = UrlToString(EntryTable[seed[c]].url)
    /\ entry.title = JStr(SeedPaper)
    /\ entry.source = JStr(SeedTag)

\* C32: from the creation of its RunState on, the source table of a run
\* holds an entry for the seed URL with the title "Seed Paper" and the tag
\* "seed", whatever web_search and extract_source report for that URL; the
\* sidecar a run wrote holds that entry.
C32_SeedEntryKept ==
    \A c \in Calls :
        /\ pc[c] \in {"prompt", "read", "writeHtml", "writeSources", "returned"}
              => /\ UrlToString(EntryTable[seed[c]].url) \in DOMAIN runState[c].sources
                 /\ IsSeedEntry(runState[c].sources[UrlToString(EntryTable[seed[c]].url)], c)
        /\ pc[c] = "returned"
              => \E i \in DOMAIN files[SourcesPath(seed[c])].sources :
                    IsSeedEntry(files[SourcesPath(seed[c])].sources[i], c)

\* a run returned after a search result and an extraction of the seed URL,
\* with another title and another tag, were taken in: the seed's entry got
\* the snippet they reported
C32_Witness ==
    \E c \in Calls :
        /\ pc[c] = "returned"
        /\ Truthy(runState[c].sources[SeedKey].snippet)
        /\ runState[c].sources[SeedKey].addedAt < clock
        /\ \E i \in DOMAIN files[SourcesPath(seed[c])].sources :
              /\ IsSeedEntry(files[SourcesPath(seed[c])].sources[i], c)
              /\ Truthy(files[SourcesPath(seed[c])].sources[i].snippet)

\* C33: the RunState made for a run has turnCount 0, the cap flag unset and
\* a source table holding the run's seed entry only; a step taken while the
\* controller holds no RunState, other than the creation of one, changes no
\* RunState; the RunState and the result of a run that has ended change
\* no more, whatever a later run receives.
C33_NoLeakBetweenRuns ==
    [][\A c \in Calls :
          /\ (pc[c] = "mkdir" /\ pc'[c] = "prompt")
                => /\ runState'[c].turnCount = 0
                   /\ ~runState'[c].maxTurnsExceeded
                   /\ DOMAIN runState'[c].sources = {UrlToString(EntryTable[seed[c]].url)}
                   /\ IsSeedEntry(runState'[c].sources[UrlToString(EntryTable[seed[c]].url)], c)
          /\ (currentRun = 0 /\ currentRun' = 0) => runState' = runState
          /\ pc[c] \in Ended
                => /\ runState'[c] = runState[c]
                   /\ runResult'[c] = runResult[c]]_vars

\* the first run returned after one turn with a source found by a search;
\* the second run, made with its own seed only, has counted two turns
C33_Witness ==
    /\ pc[1] = "returned"
    /\ runResult[1].turnCount = 1
    /\ Cardinality(DOMAIN runState[1].sources) = 2
    /\ runState[2].turnCount = 2
    /\ Cardinality(DOMAIN runState[2].sources) = 1

\* the tool_execution_end events of web_search and extract_source
IsHarvestEvent(event) ==
    /\ event.type = "tool_execution_end"
    /\ event.toolName \in {"web_search", "extract_source"}

\* C34: the source table of a run changes only when the run is given its
\* RunState with the seed and at a tool_execution_end event of web_search or
\* extract_source; every event of another type and every tool_execution_end
\* of another tool, whatever its result, leaves the source tables as they
\* are; turnCount changes only at a turn_end event.
C34_OnlyHarvestChangesSources ==
    [][/\ \A event \in ToolEvents :
             EngineEvent(event)
                => /\ ~IsHarvestEvent(event)
                      => \A c \in Calls : runState'[c].sources = runState[c].sources
                   /\ event.type # "turn_end"
                      => \A c \in Calls : runState'[c].turnCount = runState[c].turnCount
       /\ \A c \in Calls :
             /\ runState'[c].sources # runState[c].sources
                   => \/ pc[c] = "mkdir" /\ pc'[c] = "prompt"
                      \/ \E event \in HarvestEvents : EngineEvent(event)
             /\ runState'[c].turnCount # runState[c].turnCount
                   => EngineEvent([type |-> "turn_end"])]_vars

\* during the prompt of a run the listener was called with a result of the
\* read tool shaped like search details and a result of the write tool
\* shaped like extraction details: the table holds the seed only
C34_Witness ==
    /\ currentRun = 1 /\ pc[1] = "prompt"
    /\ delivered[1] = <<ToolEnd("read", FoundDetails), ToolEnd("write", ExtractedDetails)>>
    /\ DOMAIN runState[1].sources = {SeedKey}
    /\ runState[1].turnCount = 0

(* ---------------------------------------------------------------------- *)
(* Requests of one extraction: claim C35                                    *)
(* ---------------------------------------------------------------------- *)

\* the requests an extraction has made to the readable mirror
MirrorRequests ==
    IF extraction.pc = "none" THEN {}
    ELSE {i \in DOMAIN extraction.calls : extraction.calls[i] = "mirror"}

\* C35 (as claimed): an extraction makes at most one request to the
\* readable mirror, on the arxiv, pdf, html and other paths, whether the
\* request succeeds or fails.
C35_OneMirrorRequest == Cardinality(MirrorRequests) <= 1

(* ---------------------------------------------------------------------- *)
(* Cancellation of a search: claim C36                                      *)
(* ---------------------------------------------------------------------- *)

\* C36 (as claimed): a search whose signal tripped while the request to
\* Semantic Scholar was in flight stops there: it has thrown, it does not go
\* on to arXiv, and the cancellation is not among its providerErrors.
C36_CancelledSearchStops ==
    (search.pc # "none" /\ search.primary = Aborted)
        => /\ search.pc = "threw"
           /\ search.secondary = NotQueried
           /\ search.providerErrors = <<>>

(* ---------------------------------------------------------------------- *)
(* Heading detection and section lookup: claim C37                          *)
(* ---------------------------------------------------------------------- *)

\* line 126: findIndex finds a line of the text for the heading
LookupFindsLine(markdown, heading) ==
    \E lines \in {Split(Chars(ReplaceCRLF(markdown)), "\n")} :
        \E i \in DOMAIN lines : Trim(lines[i]) = Trim(heading)

\* C37 (as claimed): on every report text a required heading is in
\* missingHeadings exactly when the section lookup finds no line for it, so
\* that a section whose check passes (120 characters of a question, the
\* comparison in the related work, a URL in the references) has a heading
\* that is not reported missing.
C37_DetectionAgreesWithLookup ==
    Validated =>
        \A text \in {ReportText(applied.given)} :
            \A missing \in {Range(applied.output.missingHeadings)} :
                /\ \A k \in DOMAIN REQUIRED_REPORT_HEADINGS :
                      REQUIRED_REPORT_HEADINGS[k] \in missing
                         <=> ~LookupFindsLine(text, REQUIRED_REPORT_HEADINGS[k])
                /\ applied.output.answeredRequiredQuestions
                      => \A q \in DOMAIN REQUIRED_QUESTION_HEADINGS :
                            REQUIRED_QUESTION_HEADINGS[q] \notin missing
                /\ applied.output.hasRelatedWorkComparison => HRelated \notin missing
                /\ applied.output.hasReferenceUrls => HReferences \notin missing

(* ---------------------------------------------------------------------- *)
(* Confinement to the working root: claim C38                               *)
(* ---------------------------------------------------------------------- *)

\* the segments of a path once "." and ".." are resolved, a relative path
\* being taken from the working root
ResolvedSegments(p) ==
    NormalizeSegments(
        (IF isAbsolute(p) THEN <<>> ELSE Split(WorkingDirectory, Sep)) \o Split(p, Sep),
        <<>>)

\* the path is the working root or lies below it, segment by segment
InsideRoot(p) ==
    \E segs \in {ResolvedSegments(p)} :
        \E rootSegs \in {ResolvedSegments(WorkingDirectory)} :
            /\ Len(segs) >= Len(rootSegs)
            /\ SubSeq(segs, 1, Len(rootSegs)) = rootSegs

\* C38 (as claimed): resolvePathWithinRoot returns a path only if the input,
\* with its "." and ".." resolved, is the root or lies inside it, and throws
\* for every input that resolves outside it, a sibling whose name begins
\* with the root's name included; every path the read and write tools give
\* to the file system lies within the working root.
C38_ConfinedToRoot ==
    applied.fn \in {"read", "write"}
        => /\ applied.output # Undefined <=> InsideRoot(applied.given)
           /\ applied.output # Undefined => InsideRoot(applied.output)
           /\ \A i \in DOMAIN applied.touched : InsideRoot(applied.touched[i].path)

\* the part of C38 that is about the files: what resolvePathWithinRoot
\* returns, and so every file the tools read or write, is within the root
C38_FilesWithinRoot ==
    applied.fn \in {"read", "write"}
        => /\ applied.output # Undefined <=> InsideRoot(applied.given)
           /\ applied.output # Undefined => InsideRoot(applied.output)
           /\ \A i \in DOMAIN applied.touched :
                 applied.touched[i].op # "mkdir" => InsideRoot(applied.touched[i].path)
====
